---- MODULE Spec2Model ----
(***************************************************************************)
(* Model of the adaptive differential-evolution optimizer                  *)
(* (5.问题五py转为cpp2/adaptive_de.py), of the objective it is driven with     *)
(* (5.问题五py转为cpp3/optimizer.py) and of the decision-vector decoders       *)
(* (_parse_decision_variables of the problem 4 and problem 5 solvers).     *)
(*                                                                         *)
(* Real numbers are modelled on an integer grid: a vector component, a     *)
(* bound, a fitness value and the tolerance are integers; the mutation     *)
(* scale F is drawn from FSet and the crossover rate CR from CRSet, in     *)
(* units of 1/2 (0 and 1).  Random draws are nondeterministic choices.     *)
(***************************************************************************)
EXTENDS Integers, Sequences, FiniteSets, TLC

VARIABLES
    \* ---- AdaptiveDifferentialEvolution.__init__ arguments (fixed per run)
    lower_bounds, upper_bounds, popsize, maxiter, tol, boundary_handling,
    use_archive, archive_size, adaptive_popsize, objective_func,
    uav_assignments, cone_cover,
    \* ---- AdaptiveDifferentialEvolution state
    population, fitness, best_idx, best_fitness, generation,
    convergence_history, archive,
    \* ---- locals of optimize()
    range_next,             \* position of the iterator of range(maxiter)
    i,                      \* index of the individual evolved next
    generation_successful,  \* generation_successful_F / _CR, zipped
    trial, trial_fitness,
    result,                 \* what create_result() returned
    pc,
    \* ---- a decoder or boundary handler called on one input: the input,
    \* the callee, and what it returned; outcome also holds the exception
    \* that left a call
    dv, parser, outcome,
    \* ---- a UAV object and the Grenade objects it has deployed
    uav, grenades,
    \* ---- optimizers that are run side by side on the same random draws,
    \* each with its AdaptiveParameters object, and a StrategySelector object
    runs, strategy_selector,
    \* ---- locals of the task allocators
    temp_alloc, current_total, assignments

config == <<lower_bounds, upper_bounds, popsize, maxiter, tol,
            boundary_handling, use_archive, archive_size, adaptive_popsize,
            objective_func, uav_assignments, cone_cover>>
destate == <<population, fitness, best_idx, best_fitness, generation,
             convergence_history, archive>>
locals == <<range_next, i, generation_successful, trial, trial_fitness,
            result>>
pure == <<dv, parser, outcome>>
scene == <<uav, grenades>>
adaptive == <<runs, strategy_selector>>
allocation == <<temp_alloc, current_total, assignments>>
vars == <<config, destate, locals, pc, pure, scene, adaptive, allocation>>

----------------------------------------------------------------------------
\* Bounds of the model.

\* Largest iteration budget (maxiter) a run is given.
MaxIter == 2
\* Longest decision vector of free components handed to a decoder.
MaxVecLen == 6
\* Components a vector has beyond the longest schema (the 12 of problem 4).
MaxExtra == 1
\* Largest magnitude of a component handed to handle_boundary.
Far == 6

NoValue == "None"
\* None, in a variable that otherwise holds an array
NoArray == <<>>
\* None, in a variable that otherwise holds a dict
NoRecord == [none |-> TRUE]
\* np.inf, the best_fitness of an optimizer that has evaluated nothing: a
\* number above every cost.  It also stands in trial_fitness before the
\* first trial is evaluated.
Infinity == 1000000

Abs(x) == IF x < 0 THEN -x ELSE x
Min2(a, b) == IF a < b THEN a ELSE b
Max2(a, b) == IF a > b THEN a ELSE b

VAdd(a, b) == [k \in DOMAIN a |-> a[k] + b[k]]
VSub(a, b) == [k \in DOMAIN a |-> a[k] - b[k]]
VScale(c, a) == [k \in DOMAIN a |-> c * a[k]]
dim == Len(lower_bounds)
Dims == 1..dim

----------------------------------------------------------------------------
\* Test objectives of the repository.

RECURSIVE SumSquares(_, _)
SumSquares(x, k) == IF k = 0 THEN 0 ELSE x[k] * x[k] + SumSquares(x, k - 1)

\* sphere_function: np.sum(x**2)
sphere_function(x) == SumSquares(x, Len(x))

RECURSIVE RosenbrockSum(_, _)
RosenbrockSum(x, k) ==
    IF k = 0 THEN 0
    ELSE 100 * (x[k + 1] - x[k] * x[k]) * (x[k + 1] - x[k] * x[k])
         + (1 - x[k]) * (1 - x[k]) + RosenbrockSum(x, k - 1)

\* rosenbrock_function: sum(100*(x[1:] - x[:-1]**2)**2 + (1 - x[:-1])**2)
rosenbrock_function(x) == RosenbrockSum(x, Len(x) - 1)

----------------------------------------------------------------------------
\* Decision-vector decoders.  A decoder returns
\*   [exc |-> "none", strategy |-> <<uav_strat, ...>>, used |-> dv_index]
\* or [exc |-> "ValueError" | "IndexError"] when a Python read fails.
\* v is the vector (1-based here, 0-based in the code: dv[k] is v[k + 1]).

Raised(e) == [exc |-> e]

\* UAVS_INITIAL keys FY1..FY5 and the carriers a strategy may name.
KnownUAVs == 1..5
\* MISSILES_INITIAL keys M1..M3, sorted.
missile_ids == <<1, 2, 3>>
num_missiles == Len(missile_ids)

RECURSIVE SortedSeq(_)
SortedSeq(S) ==
    IF S = {} THEN <<>>
    ELSE LET m == CHOOSE a \in S : \A b \in S : a <= b
         IN <<m>> \o SortedSeq(S \ {m})

\* sorted(self.uav_assignments.keys())
sorted_uav_ids(assign) == SortedSeq(DOMAIN assign)

\* A deploy time read as an absolute time, not as an increment.
next_deploy_time_absolute(last_td, delta_t) == delta_t

\* current_td = last_td + delta_t (solve_problem_5.py, line 31);
\* t_d2 = t_d1 + delta_t2 (solve_problem_3.py, lines 20-21)
next_deploy_time(last_td, delta_t) == last_td + delta_t

\* The later grenades of one UAV (solve_problem_5.py, lines 28-34): k more
\* (delta_t, t_fuse) pairs are read from 0-based index idx on.
RECURSIVE P5MoreGrenades(_, _, _, _, _)
P5MoreGrenades(v, idx, k, last_td, acc) ==
    IF k <= 0 THEN [exc |-> "none", grenades |-> acc, used |-> idx]
    ELSE IF idx + 1 >= Len(v) THEN Raised("IndexError")
    ELSE LET current_td == next_deploy_time(last_td, v[idx + 1])
         IN P5MoreGrenades(v, idx + 2, k - 1, current_td,
                Append(acc, [t_deploy |-> current_td, t_fuse |-> v[idx + 2]]))

\* One UAV of Problem5SubOptimizer._parse_decision_variables, lines 19-35.
P5ParseUAV(v, idx, uav_id, num_grenades) ==
    IF Len(v) - idx < 2 THEN Raised("ValueError")    \* speed, angle = dv[a:a+2]
    ELSE IF idx + 3 >= Len(v) THEN Raised("IndexError") \* dv[idx], dv[idx+1]
    ELSE LET t_d1 == v[idx + 3]
             t_f1 == v[idx + 4]
             more == P5MoreGrenades(v, idx + 4, num_grenades - 1, t_d1,
                        <<[t_deploy |-> t_d1, t_fuse |-> t_f1]>>)
         IN IF more.exc # "none" THEN more
            ELSE [exc |-> "none", used |-> more.used,
                  uav_strat |-> [uav |-> uav_id, speed |-> v[idx + 1],
                                 angle |-> v[idx + 2],
                                 grenades |-> more.grenades]]

RECURSIVE P5ParseFrom(_, _, _, _, _)
P5ParseFrom(v, assign, ids, idx, strategy) ==
    IF ids = <<>> THEN [exc |-> "none", strategy |-> strategy, used |-> idx]
    ELSE LET one == P5ParseUAV(v, idx, Head(ids), assign[Head(ids)])
         IN IF one.exc # "none" THEN one
            ELSE P5ParseFrom(v, assign, Tail(ids), one.used,
                             Append(strategy, one.uav_strat))

\* Problem5SubOptimizer._parse_decision_variables
Problem5_parse_decision_variables(v, assign) ==
    P5ParseFrom(v, assign, sorted_uav_ids(assign), 0, <<>>)

\* int(x) for x = num / den with den > 0: truncation towards zero
IntTrunc(num, den) ==
    IF num >= 0 THEN num \div den ELSE -((-num) \div den)

\* target_missile_index = min(int(target_selector * num_missiles),
\* num_missiles - 1) and missile_ids[target_missile_index] (lines 55-58), for
\* the selector selector_num / selector_den and the sorted list ids; a
\* negative Python index counts from the end of the list.
target_missile(selector_num, selector_den, ids) ==
    LET n == Len(ids)
        target_missile_index ==
            Min2(IntTrunc(selector_num * n, selector_den), n - 1)
        pos == IF target_missile_index < 0
                  THEN n + target_missile_index + 1
                  ELSE target_missile_index + 1
    IN IF pos < 1 THEN Raised("IndexError")
       ELSE [exc |-> "none", target_missile_index |-> target_missile_index,
             target_missile_id |-> ids[pos]]

\* The grenades of one UAV of GlobalOptimizer._parse_decision_variables
\* (lines 41-66): three scalars each, the third selecting the target.
RECURSIVE GlobalGrenades(_, _, _, _, _, _)
GlobalGrenades(v, idx, n, g, last_td, acc) ==
    IF g >= n THEN [exc |-> "none", grenades |-> acc, used |-> idx]
    ELSE IF idx + 2 >= Len(v) THEN Raised("IndexError")
    ELSE LET t_d == IF g = 0 THEN v[idx + 1] ELSE last_td + v[idx + 1]
             target == target_missile(v[idx + 3], 1, missile_ids)
         IN IF target.exc # "none" THEN target
            ELSE GlobalGrenades(v, idx + 3, n, g + 1, t_d,
                    Append(acc, [t_deploy |-> t_d, t_fuse |-> v[idx + 2],
                                 target_missile |-> target.target_missile_id]))

RECURSIVE GlobalParseFrom(_, _, _, _, _)
GlobalParseFrom(v, counts, ids, idx, strategy) ==
    IF ids = <<>> THEN [exc |-> "none", strategy |-> strategy, used |-> idx]
    ELSE IF Len(v) - idx < 2 THEN Raised("ValueError")
    ELSE LET gs == GlobalGrenades(v, idx + 2, counts[Head(ids)], 0, 0, <<>>)
         IN IF gs.exc # "none" THEN gs
            ELSE GlobalParseFrom(v, counts, Tail(ids), gs.used,
                    Append(strategy, [uav |-> Head(ids), speed |-> v[idx + 1],
                                      angle |-> v[idx + 2],
                                      grenades |-> gs.grenades]))

\* GlobalOptimizer._parse_decision_variables; self.uav_ids is sorted
Global_parse_decision_variables(v, counts) ==
    GlobalParseFrom(v, counts, sorted_uav_ids(counts), 0, <<>>)

\* len(dv[a:b]) for 0 <= a <= b
SliceLen(v, a, b) == Max2(0, Min2(b, Len(v)) - a)

\* Problem4Optimizer._parse_decision_variables: three unpackings of
\* four-element slices, for FY1, FY2, FY3.
Problem4_parse_decision_variables(v) ==
    IF \E k \in 0..2 : SliceLen(v, 4 * k, 4 * k + 4) # 4
    THEN Raised("ValueError")
    ELSE [exc |-> "none", used |-> 12,
          strategy |-> [k \in 1..3 |->
              [uav |-> k, speed |-> v[4 * k - 3], angle |-> v[4 * k - 2],
               grenades |-> <<[t_deploy |-> v[4 * k - 1],
                               t_fuse |-> v[4 * k]]>>]]]

\* Problem3Optimizer._parse_decision_variables: one unpacking of the eight
\* components, for FY1 with three grenades.
Problem3_parse_decision_variables(v) ==
    IF Len(v) # 8 THEN Raised("ValueError")
    ELSE LET t_d1 == v[3]
             t_d2 == next_deploy_time(t_d1, v[5])
             t_d3 == next_deploy_time(t_d2, v[7])
         IN [exc |-> "none", used |-> 8,
             strategy |-> <<[uav |-> 1, speed |-> v[1], angle |-> v[2],
                             grenades |-> <<[t_deploy |-> t_d1, t_fuse |-> v[4]],
                                            [t_deploy |-> t_d2, t_fuse |-> v[6]],
                                            [t_deploy |-> t_d3, t_fuse |-> v[8]]>>]>>]

----------------------------------------------------------------------------
\* The objective of the sub-problem optimizers
\* (ObscurationOptimizer.objective_function, 5.问题五py转为cpp3/optimizer.py).
\* Time is counted in sampling steps of time_step.

\* CLOUD_DURATION, in seconds
CLOUD_DURATION == 20
\* 1 / time_step: sampling steps per second (time_step = 0.1)
StepsPerSecond == 10
\* Key points of the target the collective test looks at.
NumKeyPoints == 2
KeyPoints == 1..NumKeyPoints

\* Grenade.generate_smoke_cloud / SmokeCloud.__init__: the window of the
\* cloud of a grenade; covers stands for the geometry: the key points that
\* lie in the shadow cone of this cloud.
SmokeCloud(g, covers) ==
    [start_time |-> g.t_deploy + g.t_fuse,
     end_time |-> g.t_deploy + g.t_fuse + CLOUD_DURATION * StepsPerSecond,
     covers |-> covers]

\* SmokeCloud.get_center(t) is not None
IsActive(cloud, t) == cloud.start_time <= t /\ t < cloud.end_time

\* CLOUD_SINK_SPEED, in m/s (decimetres per sampling step)
CLOUD_SINK_SPEED == 3
\* UAV_SPEED_MIN and UAV_SPEED_MAX, in m/s
UAV_SPEED_MIN == 70
UAV_SPEED_MAX == 140
\* UAVS_INITIAL[uav_id]['pos'], in decimetres (FY1 .. FY5)
UAVS_INITIAL ==
    [u \in KnownUAVs |->
        CASE u = 1 -> <<178000, 0, 18000>>
          [] u = 2 -> <<120000, 14000, 14000>>
          [] u = 3 -> <<60000, -30000, 7000>>
          [] u = 4 -> <<110000, 20000, 18000>>
          [] u = 5 -> <<130000, -20000, 13000>>]

\* np.cos and np.sin of an angle given in quarter turns
Cos(q) == CASE q % 4 = 0 -> 1 [] q % 4 = 1 -> 0 [] q % 4 = 2 -> -1
            [] q % 4 = 3 -> 0
Sin(q) == Cos(q + 3)

\* UAV.__init__: velocity_vec is None (NoArray); speed and angle are None,
\* which the record shows by not having the fields.
UAV(uav_id) ==
    [id |-> uav_id, start_pos |-> UAVS_INITIAL[uav_id],
     velocity_vec |-> NoArray]

\* speed * np.array([np.cos(angle), np.sin(angle), 0.0])
VelocityVec(speed, angle) == <<speed * Cos(angle), speed * Sin(angle), 0>>

\* Grenade._solve_trajectory_scipy: the numerical solution of the motion
\* with drag is not computed.  The detonation point is one of two points
\* the fall can end in: right below the release point, or carried on by
\* the release velocity for the whole fuse time; MaxDrop below either way.
MaxDrop == 5
solve_trajectory_scipy(deploy_pos, deploy_vel, fuse_time) ==
    {[q EXCEPT ![3] = @ - MaxDrop] :
        q \in {deploy_pos, VAdd(deploy_pos, VScale(fuse_time, deploy_vel))}}

\* Grenade.__init__: the grenades it can build.  deploy_pos and deploy_vel
\* are the arguments of the constructor, kept to tell what it was built from.
Grenade(deploy_pos, deploy_vel, deploy_time, fuse_time) ==
    {[deploy_pos |-> deploy_pos, deploy_vel |-> deploy_vel,
      deploy_time |-> deploy_time, fuse_time |-> fuse_time,
      detonate_time |-> deploy_time + fuse_time,
      detonate_pos |-> q] :
        q \in solve_trajectory_scipy(deploy_pos, deploy_vel, fuse_time)}

\* Grenade.generate_smoke_cloud / SmokeCloud.__init__, with the position
generate_smoke_cloud(grenade) ==
    [detonate_pos |-> grenade.detonate_pos,
     start_time |-> grenade.detonate_time,
     end_time |-> grenade.detonate_time + CLOUD_DURATION * StepsPerSecond]

\* A get_center whose window is closed at its end.
get_center_closed(cloud, t) ==
    IF ~(cloud.start_time <= t /\ t <= cloud.end_time) THEN NoArray
    ELSE [cloud.detonate_pos EXCEPT
             ![3] = @ - CLOUD_SINK_SPEED * (t - cloud.start_time)]

\* SmokeCloud.get_center(t): None (NoArray) outside the window
get_center(cloud, t) ==
    IF ~(cloud.start_time <= t /\ t < cloud.end_time) THEN NoArray
    ELSE [cloud.detonate_pos EXCEPT
             ![3] = @ - CLOUD_SINK_SPEED * (t - cloud.start_time)]

\* A collective test that wants every key point in the cone of every cloud.
check_collective_obscuration_by_all(active_clouds, key_points) ==
    \A p \in key_points : \A c \in active_clouds : p \in c.covers

\* check_collective_obscuration: every key point is covered by some cloud.
check_collective_obscuration(active_clouds, key_points) ==
    \A p \in key_points : \E c \in active_clouds : p \in c.covers

RECURSIVE CloudsOf(_, _)
CloudsOf(g_strats, first) ==
    IF g_strats = <<>> THEN <<>>
    ELSE <<SmokeCloud(Head(g_strats), cone_cover[first])>>
         \o CloudsOf(Tail(g_strats), first + 1)

\* The try block, lines 28-36: the clouds of every UAV of the strategy, or
\* KeyError from UAV(uav_id) for an id that UAVS_INITIAL does not hold.
RECURSIVE BuildClouds(_, _)
BuildClouds(strategies, acc) ==
    IF strategies = <<>> THEN [exc |-> "none", clouds |-> acc]
    ELSE IF Head(strategies).uav \notin KnownUAVs THEN Raised("KeyError")
    ELSE BuildClouds(Tail(strategies),
                     acc \o CloudsOf(Head(strategies).grenades, Len(acc) + 1))

SeqMin(f) == CHOOSE m \in {f[k] : k \in DOMAIN f} :
                 \A k \in DOMAIN f : m <= f[k]
SeqMax(f) == CHOOSE m \in {f[k] : k \in DOMAIN f} :
                 \A k \in DOMAIN f : m >= f[k]

\* A sampler that counts every sampled instant.
obscured_time_points_unconditional(smoke_clouds) ==
    LET sim_start_time == SeqMin([k \in DOMAIN smoke_clouds |->
                                     smoke_clouds[k].start_time])
        sim_end_time == SeqMax([k \in DOMAIN smoke_clouds |->
                                   smoke_clouds[k].end_time])
    IN sim_start_time..(sim_end_time - 1)

\* A sampler that records a hidden instant once for every cloud that is
\* active at it.
obscured_time_points_per_cloud(smoke_clouds) ==
    LET sim_start_time == SeqMin([k \in DOMAIN smoke_clouds |->
                                     smoke_clouds[k].start_time])
        sim_end_time == SeqMax([k \in DOMAIN smoke_clouds |->
                                   smoke_clouds[k].end_time])
    IN {tk \in (sim_start_time..(sim_end_time - 1)) \X DOMAIN smoke_clouds :
          LET active == {smoke_clouds[k] : k \in
                           {j \in DOMAIN smoke_clouds :
                              IsActive(smoke_clouds[j], tk[1])}}
          IN /\ IsActive(smoke_clouds[tk[2]], tk[1])
             /\ check_collective_obscuration(active, KeyPoints)}

\* Lines 41-64: the sampled instants at which the target is hidden, as the
\* set of their keys round(t / self.time_step); t is counted in steps.
obscured_time_points(smoke_clouds) ==
    LET sim_start_time == SeqMin([k \in DOMAIN smoke_clouds |->
                                     smoke_clouds[k].start_time])
        sim_end_time == SeqMax([k \in DOMAIN smoke_clouds |->
                                   smoke_clouds[k].end_time])
    IN {t \in sim_start_time..(sim_end_time - 1) :
          LET active == {smoke_clouds[k] : k \in
                           {j \in DOMAIN smoke_clouds :
                              IsActive(smoke_clouds[j], t)}}
          IN active # {} /\ check_collective_obscuration(active, KeyPoints)}

\* ObscurationOptimizer.objective_function with the decoder of
\* Problem5SubOptimizer: [exc |-> "none", value |-> cost] or, when an
\* exception leaves the function, [exc |-> its type].
objective_function(decision_variables) ==
    LET parsed == Problem5_parse_decision_variables(decision_variables,
                                                    uav_assignments)
    IN IF parsed.exc # "none" THEN parsed          \* outside the try block
       ELSE LET built == BuildClouds(parsed.strategy, <<>>)
            IN IF built.exc \in {"ValueError", "KeyError"}
                  THEN [exc |-> "none", value |-> 0]
               ELSE IF built.clouds = <<>> THEN [exc |-> "none", value |-> 0]
               ELSE [exc |-> "none",
                     value |-> -Cardinality(obscured_time_points(built.clouds))]

\* SmokeCloud.check_obscuration_at_time with the geometry abstracted: the
\* cloud is active at t and the whole target lies in its shadow cone, which
\* it is taken to do when every key point does.
check_obscuration_at_time(cloud, t) ==
    IsActive(cloud, t) /\ cloud.covers = KeyPoints

\* 3.解答代码_solve1_2/optimizer.py, lines 35-42: the sampled instants at
\* which some cloud passes the single-cloud test.
obscured_time_points_solve1_2(smoke_clouds) ==
    LET sim_start_time == SeqMin([k \in DOMAIN smoke_clouds |->
                                     smoke_clouds[k].start_time])
        sim_end_time == SeqMax([k \in DOMAIN smoke_clouds |->
                                   smoke_clouds[k].end_time])
    IN {t \in sim_start_time..(sim_end_time - 1) :
          \E k \in DOMAIN smoke_clouds :
              check_obscuration_at_time(smoke_clouds[k], t)}

\* ObscurationOptimizer.objective_function of 3.解答代码_solve1_2, with
\* the decoder of Problem5SubOptimizer.
objective_function_solve1_2(decision_variables) ==
    LET parsed == Problem5_parse_decision_variables(decision_variables,
                                                    uav_assignments)
    IN IF parsed.exc # "none" THEN parsed
       ELSE LET built == BuildClouds(parsed.strategy, <<>>)
            IN IF built.exc \in {"ValueError", "KeyError"}
                  THEN [exc |-> "none", value |-> 0]
               ELSE IF built.clouds = <<>> THEN [exc |-> "none", value |-> 0]
               ELSE [exc |-> "none",
                     value |-> -Cardinality(
                         obscured_time_points_solve1_2(built.clouds))]

\* self.objective_func(x)
CallObjective(x) ==
    CASE objective_func = "sphere" ->
            [exc |-> "none", value |-> sphere_function(x)]
      [] objective_func = "rosenbrock" ->
            [exc |-> "none", value |-> rosenbrock_function(x)]
      [] objective_func = "obscuration" -> objective_function(x)

----------------------------------------------------------------------------
\* geometry.py of 3.解答代码_solve1_2, on points with integer coordinates
\* (metres).  The cone is given by its vertex and by the vector from the
\* vertex to the cloud center: the axis is its direction and the half-angle
\* is arcsin(CLOUD_RADIUS / its length).

\* CLOUD_RADIUS, in metres
CLOUD_RADIUS == 10
\* TRUE_TARGET_SPECS and TargetCylinder.__init__
TargetCylinder ==
    [radius |-> 7, height |-> 10,
     bottom_center |-> <<0, 200, 0>>,
     top_center |-> VAdd(<<0, 200, 0>>, <<0, 0, 10>>)]

Dot(a, b) == a[1] * b[1] + a[2] * b[2] + a[3] * b[3]
Cross(a, b) == <<a[2] * b[3] - a[3] * b[2],
                 a[3] * b[1] - a[1] * b[3],
                 a[1] * b[2] - a[2] * b[1]>>
NormSq(a) == Dot(a, a)
Sign(x) == IF x > 0 THEN 1 ELSE IF x < 0 THEN -1 ELSE 0
\* v / np.linalg.norm(v) for a vector along a coordinate axis
Unit(v) == [k \in DOMAIN v |-> Sign(v[k])]

\* beta <= cone_half_angle for the angle beta between p - cone_vertex and
\* the axis: cos(beta) >= cos(half-angle), cleared of roots and quotients.
WithinHalfAngle(cone_vertex, axis, p) ==
    LET vec_vp == VSub(p, cone_vertex)
    IN /\ Dot(vec_vp, axis) >= 0
       /\ Dot(vec_vp, axis) * Dot(vec_vp, axis)
            >= NormSq(vec_vp) * (NormSq(axis) - CLOUD_RADIUS * CLOUD_RADIUS)

\* The comparison with the equality left out.
StrictlyWithinHalfAngle(cone_vertex, axis, p) ==
    LET vec_vp == VSub(p, cone_vertex)
    IN /\ Dot(vec_vp, axis) >= 0
       /\ Dot(vec_vp, axis) * Dot(vec_vp, axis)
            > NormSq(vec_vp) * (NormSq(axis) - CLOUD_RADIUS * CLOUD_RADIUS)

\* Lines 17-39 of check_circle_in_cone: the points it checks.  The
\* tolerance of the collinearity test is below the resolution of the grid.
points_to_check(cone_vertex, axis, circle_center, circle_radius, circle_normal) ==
    LET vec_vc == VSub(circle_center, cone_vertex)
    IN IF NormSq(vec_vc) > 0 /\ NormSq(Cross(vec_vc, axis)) = 0
       THEN LET perp_vec == IF Abs(circle_normal[1]) < 1 THEN <<1, 0, 0>>
                            ELSE <<0, 1, 0>>
                ortho_vec == Cross(circle_normal, perp_vec)
            IN {VAdd(circle_center, VScale(circle_radius, Unit(ortho_vec)))}
       ELSE LET plane_normal == Cross(vec_vc, axis)
                intersection_dir == Cross(plane_normal, circle_normal)
                unit_intersection_dir == Unit(intersection_dir)
            IN {VAdd(circle_center,
                     VScale(circle_radius, unit_intersection_dir)),
                VSub(circle_center,
                     VScale(circle_radius, unit_intersection_dir))}

\* A cone test that wants the angle below the half-angle.
check_circle_in_cone_strict(cone_vertex, axis, circle_center, circle_radius, circle_normal) ==
    \A p \in points_to_check(cone_vertex, axis, circle_center,
                             circle_radius, circle_normal) :
        \/ NormSq(VSub(p, cone_vertex)) = 0
        \/ StrictlyWithinHalfAngle(cone_vertex, axis, p)

\* check_circle_in_cone: a point that coincides with the vertex is passed
\* over, any other point must be within the half-angle.
check_circle_in_cone(cone_vertex, axis, circle_center, circle_radius, circle_normal) ==
    \A p \in points_to_check(cone_vertex, axis, circle_center,
                             circle_radius, circle_normal) :
        \/ NormSq(VSub(p, cone_vertex)) = 0
        \/ WithinHalfAngle(cone_vertex, axis, p)

\* check_full_obscuration
check_full_obscuration(missile_pos, cloud_center, target_cylinder) ==
    LET cone_vertex == missile_pos
        axis == VSub(cloud_center, cone_vertex)
    IN IF NormSq(axis) <= CLOUD_RADIUS * CLOUD_RADIUS THEN TRUE
       ELSE IF ~check_circle_in_cone(cone_vertex, axis,
                                     target_cylinder.bottom_center,
                                     target_cylinder.radius, <<0, 0, -1>>)
            THEN FALSE
       ELSE IF ~check_circle_in_cone(cone_vertex, axis,
                                     target_cylinder.top_center,
                                     target_cylinder.radius, <<0, 0, 1>>)
            THEN FALSE
       ELSE TRUE

----------------------------------------------------------------------------
\* AdaptiveDifferentialEvolution

Strategies == {"rand/1", "best/1", "current-to-best/1", "rand/2"}
\* F as generate_parameters returns it: in (0, 2]
FSet == {1, 2}
\* CR as generate_parameters returns it, in halves: 0 and 1 (of [0, 1])
CRSet == {0, 2}
\* The (F, CR) pairs generate_parameters hands to one individual: a short
\* step crossed over in the forced dimension only, a long step taken whole.
ParameterDraws == {d \in FSet \X CRSet : d = <<1, 0>> \/ d = <<2, 2>>}

\* np.random.uniform(lo, hi): a value of [lo, hi) (of (hi, lo] when hi < lo)
UniformDraw(lo, hi) ==
    IF lo < hi THEN lo..(hi - 1) ELSE IF lo = hi THEN {lo} ELSE (hi + 1)..lo

\* The vectors that take, in each dimension k <= n, a value of choice[k].
RECURSIVE VectorsUpTo(_, _)
VectorsUpTo(choice, n) ==
    IF n = 0 THEN {<<>>}
    ELSE {Append(w, x) : w \in VectorsUpTo(choice, n - 1), x \in choice[n]}

VectorsOf(choice) == VectorsUpTo(choice, Len(choice))

\* The populations of n individuals drawn from the set S.
RECURSIVE PopulationsOf(_, _)
PopulationsOf(S, n) ==
    IF n = 0 THEN {<<>>}
    ELSE {Append(pop, x) : pop \in PopulationsOf(S, n - 1), x \in S}

\* np.argmin: the first index of the least value
ArgMin(f) == CHOOSE k \in DOMAIN f :
                 /\ \A j \in DOMAIN f : f[k] <= f[j]
                 /\ \A j \in DOMAIN f : j < k => f[j] > f[k]

\* A fold across the violated bound that is not clipped against the opposite
\* bound (REFLECT), a redraw and a midpoint as in handle_boundary.
handle_boundary_no_reclamp(individual) ==
    LET lo == lower_bounds
        hi == upper_bounds
        out(k) == individual[k] < lo[k] \/ individual[k] > hi[k]
    IN CASE boundary_handling = "clip" ->
              {[k \in Dims |-> Min2(Max2(individual[k], lo[k]), hi[k])]}
         [] boundary_handling = "reflect" ->
              {[k \in Dims |->
                  IF individual[k] < lo[k]
                     THEN lo[k] + (lo[k] - individual[k])
                  ELSE IF individual[k] > hi[k]
                     THEN hi[k] - (individual[k] - hi[k])
                  ELSE individual[k]]}
         [] boundary_handling = "reinitialize" ->
              VectorsOf([k \in Dims |->
                  IF out(k) THEN UniformDraw(lo[k], hi[k])
                  ELSE {individual[k]}])
         [] boundary_handling = "midpoint" ->
              {[k \in Dims |->
                  IF out(k) THEN (lo[k] + hi[k]) \div 2 ELSE individual[k]]}

\* np.clip that only raises the components below the lower bound.
handle_boundary_lower_only(individual) ==
    {[k \in Dims |-> Max2(individual[k], lower_bounds[k])]}

\* handle_boundary: the vectors it can return for individual (one vector,
\* but for REINITIALIZE, which draws at random).
handle_boundary(individual) ==
    LET lo == lower_bounds
        hi == upper_bounds
        out(k) == individual[k] < lo[k] \/ individual[k] > hi[k]
    IN CASE boundary_handling = "clip" ->
              {[k \in Dims |-> Min2(Max2(individual[k], lo[k]), hi[k])]}
         [] boundary_handling = "reflect" ->
              {[k \in Dims |->
                  IF individual[k] < lo[k]
                     THEN Min2(lo[k] + (lo[k] - individual[k]), hi[k])
                  ELSE IF individual[k] > hi[k]
                     THEN Max2(hi[k] - (individual[k] - hi[k]), lo[k])
                  ELSE individual[k]]}
         [] boundary_handling = "reinitialize" ->
              VectorsOf([k \in Dims |->
                  IF out(k) THEN UniformDraw(lo[k], hi[k])
                  ELSE {individual[k]}])
         [] boundary_handling = "midpoint" ->
              {[k \in Dims |->
                  IF out(k) THEN (lo[k] + hi[k]) \div 2 ELSE individual[k]]}

\* The index tuples np.random.choice(candidates, n, replace=False) can give.
RECURSIVE Choices(_, _)
Choices(candidates, n) ==
    IF n = 0 THEN {<<>>}
    ELSE UNION {{<<c>> \o r : r \in Choices(candidates \ {c}, n - 1)} :
                c \in candidates}

\* The candidates mutate draws from, and how many it draws.
Candidates(target_idx, strategy) ==
    IF strategy \in {"best/1", "current-to-best/1"}
    THEN {k \in DOMAIN population : k # target_idx /\ k # best_idx}
    ELSE {k \in DOMAIN population : k # target_idx}

Needed(strategy) ==
    CASE strategy = "rand/1" -> 3
      [] strategy = "best/1" -> 2
      [] strategy = "current-to-best/1" -> 2
      [] strategy = "rand/2" -> 5

\* np.random.choice raises ValueError when asked for more than there are.
MutateRaises(target_idx, strategy) ==
    Cardinality(Candidates(target_idx, strategy)) < Needed(strategy)

\* mutate: the mutants it can return.
mutate(target_idx, strategy, F) ==
    LET P == population
        X(r) ==
          CASE strategy = "rand/1" ->
                 VAdd(P[r[1]], VScale(F, VSub(P[r[2]], P[r[3]])))
            [] strategy = "best/1" ->
                 VAdd(P[best_idx], VScale(F, VSub(P[r[1]], P[r[2]])))
            [] strategy = "current-to-best/1" ->
                 VAdd(VAdd(P[target_idx],
                           VScale(F, VSub(P[best_idx], P[target_idx]))),
                      VScale(F, VSub(P[r[1]], P[r[2]])))
            [] strategy = "rand/2" ->
                 VAdd(VAdd(P[r[1]], VScale(F, VSub(P[r[2]], P[r[3]]))),
                      VScale(F, VSub(P[r[4]], P[r[5]])))
    IN {X(r) : r \in Choices(Candidates(target_idx, strategy),
                             Needed(strategy))}

\* The sets of dimensions for which np.random.random() < CR can hold.
CrossoverMasks(CR) ==
    IF CR = 0 THEN {{}} ELSE IF CR >= 2 THEN {Dims} ELSE SUBSET Dims

\* crossover: the trials it can return.
crossover(target, mutant_, CR) ==
    {[k \in Dims |-> IF k \in M \/ k = random_dim THEN mutant_[k]
                     ELSE target[k]] :
        M \in CrossoverMasks(CR), random_dim \in Dims}

\* deque(maxlen=archive_size).append(x)
ArchiveAppend(a, x) ==
    IF archive_size = 0 THEN a
    ELSE IF Len(a) >= archive_size THEN Append(Tail(a), x)
    ELSE Append(a, x)

----------------------------------------------------------------------------
\* AdaptiveParameters.  A mean is a quotient <<numerator, denominator>> of
\* integers; F counts in units of 1 and CR in units of 1/2.

\* AdaptiveParameters(memory_size=100), scaled with the population: the
\* solvers of the repository run populations of up to 200 individuals with
\* a memory of 100; the modelled runs have 4 individuals and a memory of 3.
memory_size == 3

\* deque(maxlen=n).append(x)
DequeAppend(d, x, n) ==
    IF n = 0 THEN d
    ELSE IF Len(d) >= n THEN Append(Tail(d), x)
    ELSE Append(d, x)

RECURSIVE SeqSum(_)
SeqSum(f) == IF f = <<>> THEN 0 ELSE Head(f) + SeqSum(Tail(f))

\* AdaptiveParameters.__init__: successful holds successful_F and
\* successful_CR, zipped; mean_F = mean_CR = 0.5
AdaptiveParameters ==
    [successful |-> <<>>, mean_F |-> <<1, 2>>, mean_CR |-> <<1, 2>>]

\* AdaptiveParameters.add_success
add_success(ap, F, CR) ==
    [ap EXCEPT !.successful = DequeAppend(@, <<F, CR>>, memory_size)]

\* An update_parameters that falls back to 0.5 when nothing succeeded.
update_parameters_resets(ap) ==
    IF Len(ap.successful) > 0
    THEN LET F_values == [k \in DOMAIN ap.successful |-> ap.successful[k][1]]
             CR_values == [k \in DOMAIN ap.successful |-> ap.successful[k][2]]
         IN [successful |-> <<>>,
             mean_F |-> IF SeqSum(F_values) > 0
                        THEN <<SeqSum([k \in DOMAIN F_values |->
                                          F_values[k] * F_values[k]]),
                               SeqSum(F_values)>>
                        ELSE <<1, 2>>,
             mean_CR |-> <<SeqSum(CR_values), 2 * Len(CR_values)>>]
    ELSE [ap EXCEPT !.mean_F = <<1, 2>>, !.mean_CR = <<1, 2>>]

\* AdaptiveParameters.update_parameters: the Lehmer mean of the remembered
\* F, the arithmetic mean of the remembered CR, and the memory cleared.
update_parameters(ap) ==
    IF Len(ap.successful) > 0
    THEN LET F_values == [k \in DOMAIN ap.successful |-> ap.successful[k][1]]
             CR_values == [k \in DOMAIN ap.successful |-> ap.successful[k][2]]
         IN [successful |-> <<>>,
             mean_F |-> IF SeqSum(F_values) > 0
                        THEN <<SeqSum([k \in DOMAIN F_values |->
                                          F_values[k] * F_values[k]]),
                               SeqSum(F_values)>>
                        ELSE <<1, 2>>,
             mean_CR |-> <<SeqSum(CR_values), 2 * Len(CR_values)>>]
    ELSE ap

\* Lines 350-352: add_success for every successful pair of the generation.
RECURSIVE AddSuccesses(_, _)
AddSuccesses(ap, pairs) ==
    IF pairs = <<>> THEN ap
    ELSE AddSuccesses(add_success(ap, Head(pairs)[1], Head(pairs)[2]),
                      Tail(pairs))

----------------------------------------------------------------------------
\* StrategySelector.  A success rate is a number of [0, 1] written in base
\* 20, [int |-> its integer part, digits |-> the digits after the point]:
\* every update divides by 20 and so adds one digit, and no digit is lost.

Base == 20
\* 1.0
One == [int |-> 1, digits |-> <<>>]

\* c * (0.digits): the digits of the product and what carries over
RECURSIVE ScaleDigits(_, _)
ScaleDigits(digits, c) ==
    IF digits = <<>> THEN [carry |-> 0, digits |-> <<>>]
    ELSE LET rest == ScaleDigits(Tail(digits), c)
             v == c * Head(digits) + rest.carry
         IN [carry |-> v \div Base, digits |-> <<v % Base>> \o rest.digits]

\* c * x + a, for integers c and a
ScaleAdd(x, c, a) ==
    LET scaled == ScaleDigits(x.digits, c)
    IN [int |-> c * x.int + scaled.carry + a, digits |-> scaled.digits]

\* x / 20
DivideByBase(x) ==
    [int |-> x.int \div Base, digits |-> <<x.int % Base>> \o x.digits]

IsPositive(x) == x.int > 0 \/ \E k \in DOMAIN x.digits : x.digits[k] > 0

\* An update that keeps nothing of the rate: the rate is the last outcome.
decayed_rate_without_memory(rate, outcome_) ==
    DivideByBase(ScaleAdd(rate, 0, Base * outcome_))

\* Lines 106-110: decay_factor * rate + (1 - decay_factor) * outcome, with
\* decay_factor = 0.95 = 19/20
decayed_rate(rate, outcome_) ==
    DivideByBase(ScaleAdd(rate, 19, outcome_))

\* StrategySelector.__init__ with the available strategies of the optimizer
StrategySelector ==
    [success_rates |-> [st \in Strategies |-> One],
     total_uses |-> [st \in Strategies |-> 1],
     recent_successes |-> [st \in Strategies |-> <<>>]]

\* StrategySelector.update_strategy_performance
update_strategy_performance_of(sel, strategy, success) ==
    LET outcome_ == IF success THEN 1 ELSE 0
    IN [total_uses |-> [sel.total_uses EXCEPT ![strategy] = @ + 1],
        recent_successes |->
            [sel.recent_successes EXCEPT
                ![strategy] = DequeAppend(@, outcome_, 10)],
        success_rates |->
            [sel.success_rates EXCEPT
                ![strategy] = decayed_rate(@, outcome_)]]

\* Lines 87-90: the weight of a strategy, 0.7 * overall_rate + 0.3 *
\* recent_success_rate, times 10 * len(recent) (times 20 for an empty
\* window, whose recent rate counts as 0.5)
weight(sel, strategy) ==
    LET recent == sel.recent_successes[strategy]
    IN IF recent = <<>> THEN ScaleAdd(sel.success_rates[strategy], 14, 3)
       ELSE ScaleAdd(sel.success_rates[strategy], 7 * Len(recent),
                     3 * SeqSum(recent))

\* The strategies np.random.choice(self.strategies, p=weights) can return:
\* those with a positive probability.
Selectable(sel) == {st \in DOMAIN sel.success_rates : IsPositive(weight(sel, st))}

----------------------------------------------------------------------------
\* optimize() as a function of the optimizer and of the random draws.  An
\* optimizer o is a record of the fields of the object (its archive
\* settings among them) and of the locals of optimize(); the bounds, the
\* budget, the tolerance, the boundary mode and the objective are those of
\* the configuration.

TheOne(S) == CHOOSE x \in S : TRUE

\* AdaptiveDifferentialEvolution.__init__, lines 150-169
Optimizer(use_archive_, archive_size_) ==
    [use_archive |-> use_archive_, archive_size |-> archive_size_,
     adaptive_params |-> AdaptiveParameters,
     archive |-> <<>>,          \* None when use_archive is False
     population |-> NoArray, fitness |-> NoArray,
     best_idx |-> 1, best_fitness |-> Infinity,
     generation |-> 0, convergence_history |-> <<>>,
     range_next |-> 0, i |-> 1, generation_successful |-> <<>>,
     result |-> NoRecord, raised |-> NoValue, pc |-> "optimize"]

\* initialize_population, with the drawn population pop
initialize_population_of(o, pop) ==
    LET fit == [k \in DOMAIN pop |-> CallObjective(pop[k]).value]
    IN [o EXCEPT !.population = pop, !.fitness = fit,
                 !.best_idx = ArgMin(fit), !.best_fitness = fit[ArgMin(fit)],
                 !.pc = "for"]

\* The head of the loop; adaptive_popsize is False in these runs, so
\* update_population_size returns at once.
start_generation_of(o) ==
    [o EXCEPT !.generation = o.range_next, !.range_next = o.range_next + 1,
              !.generation_successful = <<>>, !.i = 1, !.pc = "evolve"]

\* candidates of mutate, in the order of the list
candidates_of(o, target_idx, strategy) ==
    SortedSeq(IF strategy \in {"best/1", "current-to-best/1"}
              THEN {k \in DOMAIN o.population :
                      k # target_idx /\ k # o.best_idx}
              ELSE {k \in DOMAIN o.population : k # target_idx})

\* The positions np.random.choice(candidates, n, replace=False) can draw.
ChoiceDraws(o, target_idx, strategy) ==
    Choices(1..Len(candidates_of(o, target_idx, strategy)), Needed(strategy))

\* A mutate that takes the first difference vector's subtrahend from the
\* archive when the optimizer holds one.
mutate_drawn_from_archive(o, target_idx, strategy, F, q) ==
    LET P == o.population
        candidates == candidates_of(o, target_idx, strategy)
        r == [k \in DOMAIN q |-> candidates[q[k]]]
        A(k) == IF o.use_archive /\ o.archive # <<>>
                THEN o.archive[Len(o.archive)] ELSE P[k]
    IN CASE strategy = "rand/1" ->
              VAdd(P[r[1]], VScale(F, VSub(P[r[2]], A(r[3]))))
         [] strategy = "best/1" ->
              VAdd(P[o.best_idx], VScale(F, VSub(P[r[1]], A(r[2]))))
         [] strategy = "current-to-best/1" ->
              VAdd(VAdd(P[target_idx],
                        VScale(F, VSub(P[o.best_idx], P[target_idx]))),
                   VScale(F, VSub(P[r[1]], A(r[2]))))
         [] strategy = "rand/2" ->
              VAdd(VAdd(P[r[1]], VScale(F, VSub(P[r[2]], A(r[3])))),
                   VScale(F, VSub(P[r[4]], P[r[5]])))

\* mutate, for the positions q that np.random.choice draws among the
\* candidates
mutate_drawn(o, target_idx, strategy, F, q) ==
    LET P == o.population
        candidates == candidates_of(o, target_idx, strategy)
        r == [k \in DOMAIN q |-> candidates[q[k]]]
    IN CASE strategy = "rand/1" ->
              VAdd(P[r[1]], VScale(F, VSub(P[r[2]], P[r[3]])))
         [] strategy = "best/1" ->
              VAdd(P[o.best_idx], VScale(F, VSub(P[r[1]], P[r[2]])))
         [] strategy = "current-to-best/1" ->
              VAdd(VAdd(P[target_idx],
                        VScale(F, VSub(P[o.best_idx], P[target_idx]))),
                   VScale(F, VSub(P[r[1]], P[r[2]])))
         [] strategy = "rand/2" ->
              VAdd(VAdd(P[r[1]], VScale(F, VSub(P[r[2]], P[r[3]]))),
                   VScale(F, VSub(P[r[4]], P[r[5]])))

\* crossover, for the drawn random_dim; CR is 0 (no draw is below it) or 1
\* (every draw is)
crossover_drawn(target, mutant_, CR, random_dim) ==
    [k \in Dims |-> IF k \in TheOne(CrossoverMasks(CR)) \/ k = random_dim
                    THEN mutant_[k] ELSE target[k]]

\* Lines 326-344: the selection for individual o.i
select_of(o, F, CR, t, t_fitness) ==
    IF t_fitness < o.fitness[o.i]
    THEN [o EXCEPT
            !.generation_successful = Append(@, <<F, CR>>),
            !.archive = IF o.use_archive
                        THEN DequeAppend(@, o.population[o.i], o.archive_size)
                        ELSE @,
            !.population[o.i] = t,
            !.fitness[o.i] = t_fitness,
            !.best_idx = IF t_fitness < o.best_fitness THEN o.i ELSE @,
            !.best_fitness = IF t_fitness < o.best_fitness THEN t_fitness
                             ELSE @]
    ELSE o

\* One pass of the loop over the individuals, lines 308-348, for the
\* drawn F, CR, strategy, positions q and random_dim.  The boundary mode
\* draws nothing (it is not REINITIALIZE).
evolve_of(o, F, CR, strategy, q, random_dim) ==
    IF Len(candidates_of(o, o.i, strategy)) < Needed(strategy)
    THEN [o EXCEPT !.raised = "ValueError", !.pc = "raised"]
    ELSE LET mutant_ == TheOne(handle_boundary(
                           mutate_drawn(o, o.i, strategy, F, q)))
             t == TheOne(handle_boundary(
                     crossover_drawn(o.population[o.i], mutant_, CR,
                                     random_dim)))
             t_fitness == CallObjective(t).value
         IN [select_of(o, F, CR, t, t_fitness) EXCEPT !.i = o.i + 1]

\* The end of a generation, lines 350-371
end_generation_of(o) ==
    [o EXCEPT
        !.adaptive_params =
            update_parameters(AddSuccesses(@, o.generation_successful)),
        !.convergence_history = Append(@, o.best_fitness),
        !.pc = IF Abs(o.best_fitness) < tol THEN "return" ELSE "for"]

\* create_result
create_result_of(o) ==
    [o EXCEPT !.result = [x |-> o.population[o.best_idx],
                          fun |-> o.best_fitness,
                          nit |-> o.generation,
                          success |-> Abs(o.best_fitness) < tol,
                          convergence_history |-> o.convergence_history,
                          final_population |-> o.population,
                          final_fitness |-> o.fitness],
              !.pc = "done"]

----------------------------------------------------------------------------
\* The runs of optimize() that are modelled.

BoundaryModes == {"clip", "reflect", "reinitialize", "midpoint"}
\* (lower_bounds, upper_bounds) of a run: a box of the grid with one pinned
\* dimension (lower = upper) and one free dimension.
BoundsSet == {<<(<<1, -1>>), (<<1, 1>>)>>}
\* A bounds list with lower > upper in one dimension, as the list built from
\* (0.1, t_max) is when find_max_effective_deploy_time returns t_max < 0.1.
ContradictoryBoundsSet == {<<(<<1, 1>>), (<<1, -1>>)>>}
\* A box that is a single point, for the runs of the larger population.
PinnedBoundsSet == {<<(<<1, 0>>), (<<1, 0>>)>>}
TolSet == {1}
\* (popsize, adaptive_popsize, use_archive, archive_size) of a run: at the
\* floor max(4, dim // 2) of the population size, and one above it.
RunShapes == {<<4, FALSE, TRUE, 1>>, <<4, TRUE, FALSE, 1>>,
              <<5, TRUE, TRUE, 1>>}
\* A run with an archive of two entries: CLIP, on the Rosenbrock function.
DeepArchiveRunShapes == {<<4, FALSE, TRUE, 2>>}
\* A population that every strategy can draw its candidates from, shrinking
\* (as adaptive_differential_evolution sets the optimizer up).
LargeRunShapes == {<<6, TRUE, TRUE, 1>>}
\* uav_assignments of a run on the obscuration objective: no UAV, or FY1
\* with one grenade.
NoUAV == [u \in {} |-> 0]
RunAssignments == {NoUAV, [u \in {1} |-> 1]}
\* The key points in the cone of the k-th cloud.
FullCover == [k \in 1..4 |-> KeyPoints]

\* The locals of optimize() before the loop has set them.
NoLocals ==
    /\ trial = NoArray
    /\ trial_fitness = Infinity

NoPure ==
    /\ dv = NoValue
    /\ parser = NoValue
    /\ outcome = NoRecord

\* No UAV object has been made.
NoScene ==
    /\ uav = NoRecord
    /\ grenades = <<>>

\* No optimizers side by side and no StrategySelector of its own.
NoAdaptive ==
    /\ runs = <<>>
    /\ strategy_selector = NoRecord

\* No task allocator has been called.
NoAllocation ==
    /\ temp_alloc = <<>>
    /\ current_total = 0
    /\ assignments = <<>>

\* The state AdaptiveDifferentialEvolution.__init__ leaves, lines 152-169.
Constructed ==
    /\ population = NoArray
    /\ fitness = NoArray
    /\ best_idx = 1
    /\ best_fitness = Infinity
    /\ generation = 0
    /\ convergence_history = <<>>
    /\ archive = IF use_archive THEN <<>> ELSE NoValue
    /\ range_next = 0
    /\ i = 1
    /\ generation_successful = <<>>
    /\ NoLocals
    /\ result = NoRecord

\* An optimizer is constructed and optimize() is about to be called.
InitOptimize ==
    /\ \E b \in BoundsSet \cup ContradictoryBoundsSet \cup PinnedBoundsSet :
         lower_bounds = b[1] /\ upper_bounds = b[2]
    /\ \E shape \in RunShapes \cup LargeRunShapes \cup DeepArchiveRunShapes :
         /\ popsize = shape[1]
         /\ adaptive_popsize = shape[2]
         /\ use_archive = shape[3]
         /\ archive_size = shape[4]
    /\ maxiter \in 0..MaxIter
    /\ tol \in TolSet
    /\ boundary_handling \in BoundaryModes
    \* above the floor: as adaptive_differential_evolution builds the optimizer
    /\ popsize > 4 => boundary_handling = "reflect"
    /\ objective_func \in {"sphere", "rosenbrock", "obscuration"}
    \* the larger population: in the pinned box, on the sphere
    /\ <<lower_bounds, upper_bounds>> \in PinnedBoundsSet
         <=> <<popsize, adaptive_popsize, use_archive, archive_size>>
                \in LargeRunShapes
    /\ <<lower_bounds, upper_bounds>> \in PinnedBoundsSet
         => objective_func = "sphere"
    /\ <<popsize, adaptive_popsize, use_archive, archive_size>>
           \in DeepArchiveRunShapes
         => /\ boundary_handling = "clip"
            /\ objective_func = "rosenbrock"
            /\ <<lower_bounds, upper_bounds>> \in BoundsSet
    \* contradictory bounds: one run shape, REFLECT, the sphere
    /\ <<lower_bounds, upper_bounds>> \in ContradictoryBoundsSet
         => /\ popsize = 4 /\ ~adaptive_popsize
            /\ boundary_handling = "reflect"
            /\ objective_func = "sphere"
    /\ uav_assignments \in RunAssignments
    /\ objective_func # "obscuration" => uav_assignments = NoUAV
    /\ cone_cover = FullCover
    /\ Constructed
    /\ pc = "optimize"
    /\ NoPure
    /\ NoScene
    /\ NoAdaptive
    /\ NoAllocation

RECURSIVE SumOver(_, _)
SumOver(f, S) ==
    IF S = {} THEN 0
    ELSE LET u == CHOOSE a \in S : TRUE IN f[u] + SumOver(f, S \ {u})

\* The length of the bounds list built for a decoder from the carrier and
\* munition counts: per UAV, speed and angle, then two scalars for each
\* grenade (problem 5 sub-problem, problem 4) or three (global problem 5).
SchemaLength(decoder, assign) ==
    CASE decoder = "Problem5SubOptimizer" ->
            SumOver([u \in DOMAIN assign |-> 2 + 2 + 2 * Max2(assign[u] - 1, 0)],
                    DOMAIN assign)
      [] decoder = "GlobalOptimizer" ->
            SumOver([u \in DOMAIN assign |-> 2 + 3 * assign[u]], DOMAIN assign)
      [] decoder = "Problem4Optimizer" -> 4 + 4 + 4
      [] decoder = "Problem3Optimizer" -> 8

\* The decoders, by the class that defines _parse_decision_variables.
Decoders ==
    {"Problem5SubOptimizer", "GlobalOptimizer", "Problem4Optimizer",
     "Problem3Optimizer"}
\* The decoders whose carriers are written into the code.
FixedDecoders == {"Problem4Optimizer", "Problem3Optimizer"}

\* Carrier -> munition count of a decoder (uav_assignments of the
\* sub-problem optimizers, uav_grenade_counts of GlobalOptimizer).
DecodeAssignments ==
    {[u \in {1} |-> 1], [u \in {1} |-> 2], [u \in {1, 2} |-> 1],
     [u \in {1} |-> 0]}

\* The vector whose k-th component is k.
IndexVector(n) == [k \in 1..n |-> k]

\* The vectors handed to a decoder: every vector of 0 and 1 up to MaxVecLen
\* components, and one vector of every length up to past the longest schema.
DecodeInputs ==
    UNION {VectorsOf([k \in 1..n |-> {0, 1}]) : n \in 0..MaxVecLen}
    \cup {IndexVector(n) :
             n \in 0..(SchemaLength("Problem4Optimizer", NoUAV) + MaxExtra)}

\* GRENADE_INTERVAL, in seconds
GRENADE_INTERVAL == 1
\* find_max_effective_deploy_time(uav_id, missile_id), in seconds
t_max == 25

\* bounds.extend(...) for one UAV with num_grenades grenades
\* (solve_problem_5.py, lines 65-68): speed in m/s, angle in quarter turns,
\* times in sampling steps (0.1 s is one step).
UAVBounds(num_grenades) ==
    <<(<<UAV_SPEED_MIN, UAV_SPEED_MAX>>), (<<0, 4>>),
      (<<1, t_max * StepsPerSecond>>), (<<1, 20 * StepsPerSecond>>)>>
    \o [k \in 1..(2 * Max2(num_grenades - 1, 0)) |->
           IF k % 2 = 1
           THEN <<GRENADE_INTERVAL * StepsPerSecond, 10 * StepsPerSecond>>
           ELSE <<1, 20 * StepsPerSecond>>]

RECURSIVE BoundsOver(_, _)
BoundsOver(assign, ids) ==
    IF ids = <<>> THEN <<>>
    ELSE UAVBounds(assign[Head(ids)]) \o BoundsOver(assign, Tail(ids))

\* The bounds list the solver is given for a decoder with increments:
\* solve_problem_5.py, lines 58-68, and solve_problem_3.py, lines 38-47.
DeclaredBounds(decoder, assign) ==
    CASE decoder = "Problem5SubOptimizer" ->
            BoundsOver(assign, sorted_uav_ids(assign))
      [] decoder = "Problem3Optimizer" ->
            <<(<<UAV_SPEED_MIN, UAV_SPEED_MAX>>), (<<0, 4>>),
              (<<1, 25 * StepsPerSecond>>), (<<1, 20 * StepsPerSecond>>),
              (<<GRENADE_INTERVAL * StepsPerSecond, 10 * StepsPerSecond>>),
              (<<1, 20 * StepsPerSecond>>),
              (<<GRENADE_INTERVAL * StepsPerSecond, 10 * StepsPerSecond>>),
              (<<1, 20 * StepsPerSecond>>)>>

\* The decoders that read the later deploy times as increments.
IncrementDecoders == {"Problem5SubOptimizer", "Problem3Optimizer"}

\* low[k] <= v[k] <= high[k] for every component, bounds[k] = (low, high)
WithinBounds(v, bounds) ==
    /\ Len(v) = Len(bounds)
    /\ \A k \in DOMAIN v : bounds[k][1] <= v[k] /\ v[k] <= bounds[k][2]

\* The corners of the declared box, and the corners of the box whose lower
\* bounds are all one step (below GRENADE_INTERVAL in the increments).
BoundedInputs(decoder, assign) ==
    IF decoder \notin IncrementDecoders THEN {}
    ELSE LET b == DeclaredBounds(decoder, assign)
         IN VectorsOf([k \in DOMAIN b |-> {b[k][1], b[k][2]}])
            \cup VectorsOf([k \in DOMAIN b |-> {1, b[k][2]}])

\* The boxes handle_boundary is called in.
CallBoundsSet == BoundsSet \cup {<<(<<-2, 0>>), (<<2, 2>>)>>}

\* A decoder, or handle_boundary of a constructed optimizer, is about to be
\* called on one input.
InitCall ==
    /\ parser \in Decoders \cup {"handle_boundary"}
    /\ \E b \in CallBoundsSet : lower_bounds = b[1] /\ upper_bounds = b[2]
    /\ parser \in Decoders
         => lower_bounds = <<1, -1>> /\ boundary_handling = "reflect"
    /\ boundary_handling \in BoundaryModes
    /\ popsize = 4 /\ adaptive_popsize = FALSE
    /\ use_archive = TRUE /\ archive_size = 1
    /\ maxiter = 0
    /\ tol \in TolSet
    /\ objective_func = "obscuration"
    /\ uav_assignments \in DecodeAssignments \cup {NoUAV}
    /\ (uav_assignments = NoUAV) <=> (parser \notin Decoders \ FixedDecoders)
    /\ cone_cover = FullCover
    /\ Constructed
    /\ pc = "call"
    /\ IF parser \in Decoders
       THEN dv \in DecodeInputs \cup BoundedInputs(parser, uav_assignments)
       ELSE dv \in VectorsOf([k \in Dims |-> (-Far)..Far])
    /\ outcome = NoRecord
    /\ NoScene
    /\ NoAdaptive
    /\ NoAllocation

\* The flight strategies set_flight_strategy is called with: (speed, angle
\* in quarter turns).
FlightStrategies == {<<UAV_SPEED_MIN, 0>>, <<UAV_SPEED_MAX, 2>>}
\* Deploy and fuse times of the grenades, and the instants at which a UAV
\* or a cloud is asked for its position: around the start and around the
\* end of the windows of the clouds.
DeployTimes == {0, 1}
FuseTimes == {1}
MaxGrenades == 1
QueryTimes == (0..3) \cup (200..203)

\* UAV('FY1') has been constructed; nothing has been called on it.
InitScene ==
    /\ lower_bounds = <<1, -1>> /\ upper_bounds = <<1, 1>>
    /\ popsize = 4 /\ adaptive_popsize = FALSE
    /\ use_archive = TRUE /\ archive_size = 1
    /\ maxiter = 0
    /\ tol \in TolSet
    /\ boundary_handling = "reflect"
    /\ objective_func = "obscuration"
    /\ uav_assignments = NoUAV
    /\ cone_cover = FullCover
    /\ Constructed
    /\ pc = "scene"
    /\ dv = NoValue /\ parser = "UAV" /\ outcome = NoRecord
    /\ uav = UAV(1)
    /\ grenades = <<>>
    /\ NoAdaptive
    /\ NoAllocation

\* The callees of a call on clouds: the collective test, and the objective
\* of the collective test and of the single-cloud test.
ObjectiveCallees == {"check_collective_obscuration", "objective_function",
                     "objective_function_solve1_2"}
\* The key points in the cone of each cloud: any for the first three.
CoverFamilies == {c \in [1..4 -> SUBSET KeyPoints] : c[4] = {}}
\* The clouds handed to the collective test: dv[k] = 1 iff the k-th is.
ActiveSelections == VectorsOf([k \in 1..3 |-> {0, 1}])
\* The decision vectors handed to the objectives: FY1 and FY2 with one
\* grenade each, the second deployed with the first, while the cloud of
\* the first is active, or after it has dissipated.
ObjectiveInputs ==
    {<<UAV_SPEED_MIN, 0, 0, 1, UAV_SPEED_MIN, 0, t_deploy, 1>> :
        t_deploy \in {0, 100, 300}}

\* The carriers of the objectives: FY1 and FY2, or FY1 and a carrier that
\* UAVS_INITIAL does not hold.
ObjectiveAssignments == {[u \in {1, 2} |-> 1], [u \in {1, 6} |-> 1]}

\* The collective test or an objective is about to be called on one input.
InitObjectiveCall ==
    /\ lower_bounds = <<1, -1>> /\ upper_bounds = <<1, 1>>
    /\ popsize = 4 /\ adaptive_popsize = FALSE
    /\ use_archive = TRUE /\ archive_size = 1
    /\ maxiter = 0
    /\ tol \in TolSet
    /\ boundary_handling = "reflect"
    /\ objective_func = "obscuration"
    /\ cone_cover \in CoverFamilies
    /\ parser \in ObjectiveCallees
    /\ IF parser = "check_collective_obscuration"
       THEN dv \in ActiveSelections /\ uav_assignments = NoUAV
       ELSE dv \in ObjectiveInputs /\ uav_assignments \in ObjectiveAssignments
    /\ Constructed
    /\ pc = "call"
    /\ outcome = NoRecord
    /\ NoScene
    /\ NoAdaptive
    /\ NoAllocation

\* The observers and the cloud centers of the single-cloud test, in the
\* vertical plane through the axis of the target: observers level with the
\* top rim, above and below it, and one next to each cloud center.
MissilePositions ==
    {<<30, 200, z>> : z \in 8..12} \cup {<<15, 200, 10>>, <<6, 200, 8>>}
CloudCenters == {<<6, 200, 0>>, <<6, 200, 10>>, <<15, 200, 20>>}
GeometryInputs ==
    {missile_pos \o cloud_center : missile_pos \in MissilePositions,
                                   cloud_center \in CloudCenters}

\* check_full_obscuration is about to be called on one observer and one
\* cloud center.
InitGeometryCall ==
    /\ lower_bounds = <<1, -1>> /\ upper_bounds = <<1, 1>>
    /\ popsize = 4 /\ adaptive_popsize = FALSE
    /\ use_archive = TRUE /\ archive_size = 1
    /\ maxiter = 0
    /\ tol \in TolSet
    /\ boundary_handling = "reflect"
    /\ objective_func = "obscuration"
    /\ uav_assignments = NoUAV
    /\ cone_cover = FullCover
    /\ parser = "check_full_obscuration"
    /\ dv \in GeometryInputs
    /\ Constructed
    /\ pc = "call"
    /\ outcome = NoRecord
    /\ NoScene
    /\ NoAdaptive
    /\ NoAllocation

\* (use_archive, archive_size) of the optimizers that are run side by
\* side: with an archive, without one, and with an archive of another size.
RunArchiveSettings == <<(<<TRUE, 1>>), (<<FALSE, 1>>), (<<TRUE, 2>>)>>
\* The boundary mode of these runs: REFLECT, as
\* adaptive_differential_evolution sets it; it draws nothing.
RunsBoundaryModes == {"reflect"}

\* Optimizers are constructed with the same arguments but for the archive,
\* and optimize() is about to be called on each of them with the random
\* number generator in the same state.
InitRuns ==
    /\ \E b \in BoundsSet : lower_bounds = b[1] /\ upper_bounds = b[2]
    /\ popsize = 4 /\ adaptive_popsize = FALSE
    /\ use_archive = RunArchiveSettings[1][1]
    /\ archive_size = RunArchiveSettings[1][2]
    /\ runs = [k \in DOMAIN RunArchiveSettings |->
                  Optimizer(RunArchiveSettings[k][1], RunArchiveSettings[k][2])]
    /\ maxiter = MaxIter
    /\ tol \in TolSet
    /\ boundary_handling \in RunsBoundaryModes
    /\ objective_func \in {"sphere", "rosenbrock"}
    /\ uav_assignments = NoUAV
    /\ cone_cover = FullCover
    /\ Constructed
    /\ pc = "runs"
    /\ NoPure
    /\ NoScene
    /\ strategy_selector = NoRecord
    /\ NoAllocation

\* Most calls of update_strategy_performance for one strategy: one more
\* than its window of recent outcomes holds.
MaxUpdates == 11
\* The strategy update_strategy_performance is called for, and how often
\* at most; the other strategies stay as __init__ leaves them.
UpdateBudget == [st \in {"rand/1"} |-> MaxUpdates]

\* The StrategySelector of an optimizer has been constructed; nothing has
\* been called on it.
InitSelector ==
    /\ lower_bounds = <<1, -1>> /\ upper_bounds = <<1, 1>>
    /\ popsize = 4 /\ adaptive_popsize = FALSE
    /\ use_archive = TRUE /\ archive_size = 1
    /\ maxiter = 0
    /\ tol \in TolSet
    /\ boundary_handling = "reflect"
    /\ objective_func = "obscuration"
    /\ uav_assignments = NoUAV
    /\ cone_cover = FullCover
    /\ Constructed
    /\ pc = "selector"
    /\ dv = NoValue /\ parser = "StrategySelector" /\ outcome = NoRecord
    /\ NoScene
    /\ runs = <<>>
    /\ strategy_selector = StrategySelector
    /\ NoAllocation

\* Selector values are multiples of 1 / SelectorSteps, from -2 to 2.
SelectorSteps == 4
Selectors == (-2 * SelectorSteps)..(2 * SelectorSteps)
\* The numbers of missiles a GlobalOptimizer is constructed with.
MaxMissiles == 3

\* The mapping of a target selector to a missile is about to be computed for
\* one selector (dv[1], in steps) and one number of missiles (dv[2]).
InitTargetCall ==
    /\ lower_bounds = <<1, -1>> /\ upper_bounds = <<1, 1>>
    /\ popsize = 4 /\ adaptive_popsize = FALSE
    /\ use_archive = TRUE /\ archive_size = 1
    /\ maxiter = 0
    /\ tol \in TolSet
    /\ boundary_handling = "reflect"
    /\ objective_func = "obscuration"
    /\ uav_assignments = NoUAV
    /\ cone_cover = FullCover
    /\ Constructed
    /\ pc = "call"
    /\ parser = "target_missile"
    /\ dv \in {<<sel, n>> : sel \in Selectors, n \in 1..MaxMissiles}
    /\ outcome = NoRecord
    /\ NoScene
    /\ NoAdaptive
    /\ NoAllocation

\* The task allocators: assign_tasks_by_optimal_allocation
\* (5.问题五py转为cpp/task_allocator.py) and assign_tasks_by_threat
\* (5.问题五py转为cpp3/task_allocator.py).
Allocators == {"assign_tasks_by_optimal_allocation", "assign_tasks_by_threat"}

\* list(UAVS_INITIAL.keys())
uav_ids == <<1, 2, 3, 4, 5>>
num_uavs == Len(uav_ids)

\* MISSILES_INITIAL[missile_id]['pos'], in decimetres (M1 .. M3); every
\* 'target' is the origin.
MISSILES_INITIAL ==
    [m \in DOMAIN missile_ids |->
        CASE m = 1 -> <<200000, 0, 20000>>
          [] m = 2 -> <<190000, 6000, 21000>>
          [] m = 3 -> <<180000, -6000, 19000>>]

\* Threat weights are multiples of 1 / WeightSteps that sum to 1.
WeightSteps == 10
ThreatWeightMaps ==
    {w \in [DOMAIN missile_ids -> 0..WeightSteps] : SeqSum(w) = WeightSteps}

\* np.round(num / den) for num >= 0, den > 0: to the nearest integer, a tie
\* to the even one
RoundHalfEven(num, den) ==
    LET q == num \div den
        r == num % den
    IN IF 2 * r < den THEN q
       ELSE IF 2 * r > den THEN q + 1
       ELSE IF q % 2 = 0 THEN q ELSE q + 1

\* max(threat_weights, key=threat_weights.get): the first key of the
\* largest weight
m_id_to_add(threat_weights) ==
    CHOOSE m \in DOMAIN threat_weights :
        \A k \in DOMAIN threat_weights :
            /\ threat_weights[k] <= threat_weights[m]
            /\ k < m => threat_weights[k] < threat_weights[m]

\* min(threat_weights, key=threat_weights.get): the first key of the
\* smallest weight
m_id_to_sub(threat_weights) ==
    CHOOSE m \in DOMAIN threat_weights :
        \A k \in DOMAIN threat_weights :
            /\ threat_weights[k] >= threat_weights[m]
            /\ k < m => threat_weights[k] > threat_weights[m]

\* The order of calculate_engagement_time_cost: the squared distance, in
\* square metres, from the UAV to three times the intercept point
\* pos + (target - pos) / 3, with the UAV position scaled alike.
engagement_cost(u_id, m_id) ==
    SumSquares([k \in 1..3 |->
        (3 * UAVS_INITIAL[u_id][k] - 2 * MISSILES_INITIAL[m_id][k]) \div 10],
        3)

\* sorted(S, key=...): the elements of S by increasing key, elements of
\* equal key in their order in the list that is sorted.
RECURSIVE SortedByKey(_, _)
SortedByKey(S, key) ==
    IF S = {} THEN <<>>
    ELSE LET first == CHOOSE a \in S : \A b \in S :
                          \/ key[a] < key[b]
                          \/ key[a] = key[b] /\ a <= b
         IN <<first>> \o SortedByKey(S \ {first}, key)

\* The greedy loop of assign_tasks_by_threat, lines 56-68, over the
\* missiles in order, from the UAVs that are not in assigned_uavs.
RECURSIVE GreedyAssign(_, _, _, _)
GreedyAssign(order, allocation_requirements, assigned_uavs, acc) ==
    IF order = <<>> THEN acc
    ELSE LET missile_id == Head(order)
             num_needed == allocation_requirements[missile_id]
             free == {u \in DOMAIN uav_ids : u \notin assigned_uavs}
             candidates ==
                 SortedByKey(free, [u \in free |->
                                       engagement_cost(u, missile_id)])
             taken == {candidates[k] :
                          k \in 1..Min2(num_needed, Len(candidates))}
         IN GreedyAssign(Tail(order), allocation_requirements,
                         assigned_uavs \cup taken,
                         [acc EXCEPT ![missile_id] = taken])

\* The solutions of the integer program of
\* assign_tasks_by_optimal_allocation, lines 63-84: every UAV goes to one
\* missile and every missile gets its required number of UAVs.  milp
\* returns one of them of least total cost; which one is left open here.
FeasibleAllocations(allocation_requirements) ==
    {x \in [DOMAIN uav_ids -> DOMAIN missile_ids] :
        \A m \in DOMAIN missile_ids :
            Cardinality({u \in DOMAIN uav_ids : x[u] = m})
                = allocation_requirements[m]}

\* A task allocator is about to be called on one threat-weight map (dv).
InitAllocate ==
    /\ lower_bounds = <<1, -1>> /\ upper_bounds = <<1, 1>>
    /\ popsize = 4 /\ adaptive_popsize = FALSE
    /\ use_archive = TRUE /\ archive_size = 1
    /\ maxiter = 0
    /\ tol \in TolSet
    /\ boundary_handling = "reflect"
    /\ objective_func = "obscuration"
    /\ uav_assignments = NoUAV
    /\ cone_cover = FullCover
    /\ Constructed
    /\ pc = "call"
    /\ parser \in Allocators
    /\ dv \in ThreatWeightMaps
    /\ outcome = NoRecord
    /\ NoScene
    /\ NoAdaptive
    /\ NoAllocation

Init ==
    \/ InitAllocate
    \/ InitTargetCall
    \/ InitOptimize
    \/ InitCall
    \/ InitScene
    \/ InitObjectiveCall
    \/ InitGeometryCall
    \/ InitRuns
    \/ InitSelector

\* initialize_population: the draw, the evaluation of every individual and
\* the best one.  An exception of the objective leaves optimize().
initialize_population ==
    /\ pc = "optimize"
    /\ \E pop \in PopulationsOf(
                     VectorsOf([k \in Dims |->
                        UniformDraw(lower_bounds[k], upper_bounds[k])]),
                     popsize) :
         LET evals == [k \in 1..popsize |-> CallObjective(pop[k])]
         IN /\ population' = pop
            /\ IF \E k \in 1..popsize : evals[k].exc # "none"
               THEN LET first == CHOOSE k \in 1..popsize :
                                    /\ evals[k].exc # "none"
                                    /\ \A j \in 1..(k - 1) :
                                          evals[j].exc = "none"
                    IN /\ pc' = "raised"
                       /\ outcome' = [exc |-> evals[first].exc,
                                      raised_in |-> "objective_func"]
                       /\ UNCHANGED <<fitness, best_idx, best_fitness>>
               ELSE LET fit == [k \in 1..popsize |-> evals[k].value]
                    IN /\ fitness' = fit
                       /\ best_idx' = ArgMin(fit)
                       /\ best_fitness' = fit[ArgMin(fit)]
                       /\ pc' = "for"
                       /\ UNCHANGED outcome
    /\ UNCHANGED <<config, generation, convergence_history, archive, locals,
                   dv, parser, scene>>
    /\ UNCHANGED <<adaptive, allocation>>

\* np.argsort(self.fitness)[:n]: the first n indices of an order of the
\* indices by fitness (the order among equal values is not fixed).
ArgSortPrefixes(f, n) ==
    {p \in [1..n -> DOMAIN f] :
        /\ \A a, b \in 1..n : a # b => p[a] # p[b]
        /\ \A a, b \in 1..n : a < b => f[p[a]] <= f[p[b]]
        /\ \A j \in DOMAIN f :
              (\A a \in 1..n : p[a] # j) => \A a \in 1..n : f[p[a]] <= f[j]}

\* A shrink that keeps the first n individuals, unsorted.
Survivors_unsorted(n) ==
    {<<[k \in 1..n |-> population[k]], [k \in 1..n |-> fitness[k]]>>}

\* Lines 285-287: the population and fitness that are kept, n of them.
Survivors(n) ==
    {<<[k \in 1..n |-> population[p[k]]], [k \in 1..n |-> fitness[p[k]]]>> :
        p \in ArgSortPrefixes(fitness, n)}

\* A target size that shrinks linearly towards no individual at all.
current_popsize_towards_zero(gen) ==
    LET num == popsize * maxiter - gen * popsize
    IN num \div maxiter

\* int(max_popsize - progress * (max_popsize - min_popsize)), floored at
\* min_popsize, for progress = gen / maxiter.
current_popsize(gen) ==
    LET min_popsize == Max2(4, dim \div 2)
        max_popsize == popsize
        \* int() truncates towards zero
        num == max_popsize * maxiter - gen * (max_popsize - min_popsize)
        truncated == IF num >= 0 THEN num \div maxiter
                     ELSE -((-num) \div maxiter)
    IN Max2(truncated, min_popsize)

\* The head of the loop, for generation in range(self.maxiter), with
\* update_population_size and the reset of the generation's records.
StartGeneration ==
    /\ pc = "for"
    /\ range_next < maxiter
    /\ generation' = range_next
    /\ range_next' = range_next + 1
    /\ IF adaptive_popsize /\ current_popsize(range_next) < Len(population)
       THEN \E kept \in Survivors(current_popsize(range_next)) :
              /\ population' = kept[1]
              /\ fitness' = kept[2]
              /\ best_idx' = 1
       ELSE UNCHANGED <<population, fitness, best_idx>>
    /\ generation_successful' = <<>>
    /\ i' = 1
    /\ trial' = NoArray
    /\ trial_fitness' = Infinity
    /\ pc' = "evolve"
    /\ UNCHANGED <<config, best_fitness, convergence_history, archive,
                   result, pure, scene>>
    /\ UNCHANGED <<adaptive, allocation>>

\* A selection that also accepts a trial of equal cost.
Select_on_equal(F, CR, t, t_fitness) ==
    IF t_fitness <= fitness[i]
    THEN /\ generation_successful' = Append(generation_successful, <<F, CR>>)
         /\ archive' = IF archive # NoValue
                          THEN ArchiveAppend(archive, population[i])
                          ELSE archive
         /\ population' = [population EXCEPT ![i] = t]
         /\ fitness' = [fitness EXCEPT ![i] = t_fitness]
         /\ IF t_fitness < best_fitness
            THEN best_idx' = i /\ best_fitness' = t_fitness
            ELSE UNCHANGED <<best_idx, best_fitness>>
    ELSE UNCHANGED <<generation_successful, archive, population, fitness,
                     best_idx, best_fitness>>

\* A selection that takes every accepted trial for the new best.
Select_best_on_any_success(F, CR, t, t_fitness) ==
    IF t_fitness < fitness[i]
    THEN /\ generation_successful' = Append(generation_successful, <<F, CR>>)
         /\ archive' = IF archive # NoValue
                          THEN ArchiveAppend(archive, population[i])
                          ELSE archive
         /\ population' = [population EXCEPT ![i] = t]
         /\ fitness' = [fitness EXCEPT ![i] = t_fitness]
         /\ best_idx' = i
         /\ best_fitness' = t_fitness
    ELSE UNCHANGED <<generation_successful, archive, population, fitness,
                     best_idx, best_fitness>>

\* A selection that archives the row of the population without copying it:
\* the entry shows the trial once the row has been overwritten.
Select_archives_view(F, CR, t, t_fitness) ==
    IF t_fitness < fitness[i]
    THEN /\ generation_successful' = Append(generation_successful, <<F, CR>>)
         /\ archive' = IF archive # NoValue
                          THEN ArchiveAppend(archive, t)
                          ELSE archive
         /\ population' = [population EXCEPT ![i] = t]
         /\ fitness' = [fitness EXCEPT ![i] = t_fitness]
         /\ IF t_fitness < best_fitness
            THEN best_idx' = i /\ best_fitness' = t_fitness
            ELSE UNCHANGED <<best_idx, best_fitness>>
    ELSE UNCHANGED <<generation_successful, archive, population, fitness,
                     best_idx, best_fitness>>

\* Lines 326-344: the selection for individual i, given the trial's cost.
Select(F, CR, t, t_fitness) ==
    IF t_fitness < fitness[i]
    THEN /\ generation_successful' = Append(generation_successful, <<F, CR>>)
         /\ archive' = IF archive # NoValue
                          THEN ArchiveAppend(archive, population[i])
                          ELSE archive
         /\ population' = [population EXCEPT ![i] = t]
         /\ fitness' = [fitness EXCEPT ![i] = t_fitness]
         /\ IF t_fitness < best_fitness
            THEN best_idx' = i /\ best_fitness' = t_fitness
            ELSE UNCHANGED <<best_idx, best_fitness>>
    ELSE UNCHANGED <<generation_successful, archive, population, fitness,
                     best_idx, best_fitness>>

\* Lines 313-317 for individual i: the mutants, after handle_boundary, that
\* the strategies mutate can complete lead to.
BoundedMutants(F) ==
    UNION {handle_boundary(v) :
           v \in UNION {mutate(i, strategy, F) :
                        strategy \in {s \in Strategies :
                                        ~MutateRaises(i, s)}}}

\* Lines 320-321: the trials, after handle_boundary, of a mutant.
BoundedTrials(m, CR) ==
    UNION {handle_boundary(c) : c \in crossover(population[i], m, CR)}

\* One pass of the loop over the individuals, lines 308-348.  The objective
\* raises for a trial only if it raised for the initial population (the
\* decoders fail on the length of the vector), so a pass is reached only
\* with an objective that returns.
EvolveIndividual ==
    /\ pc = "evolve"
    /\ i <= Len(population)
    /\ \E draw \in ParameterDraws :
         \E m \in BoundedMutants(draw[1]) :
           \E t \in BoundedTrials(m, draw[2]) :
             LET ev == CallObjective(t)
             IN /\ ev.exc = "none"
                /\ trial' = t
                /\ trial_fitness' = ev.value
                /\ Select(draw[1], draw[2], t, ev.value)
    /\ i' = i + 1
    /\ UNCHANGED <<config, generation, convergence_history, range_next,
                   result, pc, pure, scene>>
    /\ UNCHANGED <<adaptive, allocation>>

\* mutate raises ValueError: np.random.choice cannot draw that many
\* distinct candidates.  The exception leaves optimize().
MutateFails ==
    /\ pc = "evolve"
    /\ i <= Len(population)
    /\ \E strategy \in Strategies : MutateRaises(i, strategy)
    /\ pc' = "raised"
    /\ outcome' = [exc |-> "ValueError", raised_in |-> "mutate"]
    \* the locals are gone with the frame of optimize()
    /\ generation_successful' = <<>>
    /\ trial' = NoArray
    /\ trial_fitness' = Infinity
    /\ UNCHANGED <<config, destate, range_next, i, result, dv, parser, scene>>
    /\ UNCHANGED <<adaptive, allocation>>

\* An end of a generation without the convergence check.
EndGeneration_without_check ==
    /\ pc = "evolve"
    /\ i > Len(population)
    /\ convergence_history' = Append(convergence_history, best_fitness)
    /\ pc' = "for"
    /\ generation_successful' = <<>>
    /\ trial' = NoArray
    /\ trial_fitness' = Infinity
    /\ UNCHANGED <<config, population, fitness, best_idx, best_fitness,
                   generation, archive, range_next, i, result, pure, scene>>
    /\ UNCHANGED <<adaptive, allocation>>

\* The end of a generation, lines 350-371: the convergence record and check.
EndGeneration ==
    /\ pc = "evolve"
    /\ i > Len(population)
    /\ convergence_history' = Append(convergence_history, best_fitness)
    /\ pc' = IF Abs(best_fitness) < tol THEN "return" ELSE "for"
    \* the records and locals of the generation are not read again
    /\ generation_successful' = <<>>
    /\ trial' = NoArray
    /\ trial_fitness' = Infinity
    /\ UNCHANGED <<config, population, fitness, best_idx, best_fitness,
                   generation, archive, range_next, i, result, pure, scene>>
    /\ UNCHANGED <<adaptive, allocation>>

\* range(maxiter) is exhausted.
LoopExhausted ==
    /\ pc = "for"
    /\ range_next >= maxiter
    /\ pc' = "return"
    /\ UNCHANGED <<config, destate, locals, pure, scene>>
    /\ UNCHANGED <<adaptive, allocation>>

\* create_result
create_result ==
    /\ pc = "return"
    /\ result' = [x |-> population[best_idx],
                  fun |-> best_fitness,
                  nit |-> generation,
                  success |-> Abs(best_fitness) < tol,
                  convergence_history |-> convergence_history,
                  final_population |-> population,
                  final_fitness |-> fitness]
    /\ pc' = "done"
    /\ UNCHANGED <<config, destate, range_next, i, generation_successful,
                   trial, trial_fitness, pure, scene>>
    /\ UNCHANGED <<adaptive, allocation>>

\* self.handle_boundary(dv)
call_handle_boundary ==
    /\ pc = "call"
    /\ parser = "handle_boundary"
    /\ \E w \in handle_boundary(dv) :
         outcome' = [exc |-> "none", value |-> w]
    /\ pc' = "returned"
    /\ UNCHANGED <<config, destate, locals, dv, parser, scene>>
    /\ UNCHANGED <<adaptive, allocation>>

\* What the decoder named by parser makes of v.
Decode(v) ==
    CASE parser = "Problem5SubOptimizer" ->
            Problem5_parse_decision_variables(v, uav_assignments)
      [] parser = "GlobalOptimizer" ->
            Global_parse_decision_variables(v, uav_assignments)
      [] parser = "Problem4Optimizer" ->
            Problem4_parse_decision_variables(v)
      [] parser = "Problem3Optimizer" ->
            Problem3_parse_decision_variables(v)

\* self._parse_decision_variables(dv) returns a strategy.
parse_decision_variables_returns ==
    /\ pc = "call"
    /\ parser \in Decoders
    /\ Decode(dv).exc = "none"
    /\ outcome' = Decode(dv)
    /\ pc' = "returned"
    /\ UNCHANGED <<config, destate, locals, dv, parser, scene>>
    /\ UNCHANGED <<adaptive, allocation>>

\* self._parse_decision_variables(dv) raises.
parse_decision_variables_raises ==
    /\ pc = "call"
    /\ parser \in Decoders
    /\ Decode(dv).exc # "none"
    /\ outcome' = Decode(dv)
    /\ pc' = "raised"
    /\ UNCHANGED <<config, destate, locals, dv, parser, scene>>
    /\ UNCHANGED <<adaptive, allocation>>

\* A set_flight_strategy that leaves a velocity that is already set.
set_flight_strategy_keeps_velocity ==
    /\ pc = "scene"
    /\ \E fs \in FlightStrategies :
         uav' = [id |-> uav.id, start_pos |-> uav.start_pos,
                 speed |-> fs[1], angle |-> fs[2],
                 velocity_vec |-> IF uav.velocity_vec = NoArray
                                  THEN VelocityVec(fs[1], fs[2])
                                  ELSE uav.velocity_vec]
    /\ outcome' = [exc |-> "none", call |-> "set_flight_strategy"]
    /\ UNCHANGED <<config, destate, locals, pc, dv, parser, grenades>>
    /\ UNCHANGED <<adaptive, allocation>>

\* UAV.set_flight_strategy(speed, angle)
set_flight_strategy ==
    /\ pc = "scene"
    /\ \E fs \in FlightStrategies :
         uav' = [id |-> uav.id, start_pos |-> uav.start_pos,
                 speed |-> fs[1], angle |-> fs[2],
                 velocity_vec |-> VelocityVec(fs[1], fs[2])]
    /\ outcome' = [exc |-> "none", call |-> "set_flight_strategy"]
    /\ UNCHANGED <<config, destate, locals, pc, dv, parser, grenades>>
    /\ UNCHANGED <<adaptive, allocation>>

\* UAV.get_position(t)
get_position ==
    /\ pc = "scene"
    /\ \E t \in QueryTimes :
         outcome' =
           IF uav.velocity_vec = NoArray
           THEN [exc |-> "ValueError", call |-> "get_position"]
           ELSE [exc |-> "none", call |-> "get_position", t |-> t,
                 value |-> VAdd(uav.start_pos, VScale(t, uav.velocity_vec))]
    /\ UNCHANGED <<config, destate, locals, pc, dv, parser, scene>>
    /\ UNCHANGED <<adaptive, allocation>>

\* UAV.deploy_grenade(deploy_time, fuse_time)
deploy_grenade ==
    /\ pc = "scene"
    /\ Len(grenades) < MaxGrenades
    /\ \E deploy_time \in DeployTimes, fuse_time \in FuseTimes :
         IF uav.velocity_vec = NoArray
         THEN /\ outcome' = [exc |-> "ValueError", call |-> "deploy_grenade"]
              /\ UNCHANGED grenades
         ELSE LET deploy_pos == VAdd(uav.start_pos,
                                     VScale(deploy_time, uav.velocity_vec))
              IN \E g \in Grenade(deploy_pos, uav.velocity_vec,
                                  deploy_time, fuse_time) :
                   /\ grenades' = Append(grenades, g)
                   /\ outcome' = [exc |-> "none", call |-> "deploy_grenade",
                                  value |-> g]
    /\ UNCHANGED <<config, destate, locals, pc, dv, parser, uav>>
    /\ UNCHANGED <<adaptive, allocation>>

\* grenade.generate_smoke_cloud().get_center(t) for a deployed grenade
call_get_center ==
    /\ pc = "scene"
    /\ \E k \in DOMAIN grenades, t \in QueryTimes :
         outcome' = [exc |-> "none", call |-> "get_center",
                     cloud |-> k, t |-> t,
                     value |-> get_center(generate_smoke_cloud(grenades[k]),
                                          t)]
    /\ UNCHANGED <<config, destate, locals, pc, dv, parser, scene>>
    /\ UNCHANGED <<adaptive, allocation>>

\* The clouds the selection v hands to the collective test.
SelectedClouds(v) ==
    {[covers |-> cone_cover[k]] : k \in {j \in DOMAIN v : v[j] = 1}}

\* check_collective_obscuration(missile_pos, active_cloud_centers,
\* target_key_points)
call_check_collective_obscuration ==
    /\ pc = "call"
    /\ parser = "check_collective_obscuration"
    /\ outcome' = [exc |-> "none",
                   value |-> check_collective_obscuration(SelectedClouds(dv),
                                                          KeyPoints)]
    /\ pc' = "returned"
    /\ UNCHANGED <<config, destate, locals, dv, parser, scene>>
    /\ UNCHANGED <<adaptive, allocation>>

\* optimizer.objective_function(dv), of either ObscurationOptimizer
call_objective_function ==
    /\ pc = "call"
    /\ parser \in {"objective_function", "objective_function_solve1_2"}
    /\ LET returned == IF parser = "objective_function"
                       THEN objective_function(dv)
                       ELSE objective_function_solve1_2(dv)
       IN /\ outcome' = returned
          /\ pc' = IF returned.exc = "none" THEN "returned" ELSE "raised"
    /\ UNCHANGED <<config, destate, locals, dv, parser, scene>>
    /\ UNCHANGED <<adaptive, allocation>>

\* check_full_obscuration(missile_pos, cloud_center, target)
call_check_full_obscuration ==
    /\ pc = "call"
    /\ parser = "check_full_obscuration"
    /\ outcome' = [exc |-> "none",
                   value |-> check_full_obscuration(SubSeq(dv, 1, 3),
                                                    SubSeq(dv, 4, 6),
                                                    TargetCylinder)]
    /\ pc' = "returned"
    /\ UNCHANGED <<config, destate, locals, dv, parser, scene>>
    /\ UNCHANGED <<adaptive, allocation>>

\* The optimizers run side by side are all at the same place of optimize().
AllAt(place) == pc = "runs" /\ \A k \in DOMAIN runs : runs[k].pc = place

\* initialize_population in every optimizer, on the same draws
Runs_initialize_population ==
    /\ AllAt("optimize")
    /\ \E pop \in PopulationsOf(
                     VectorsOf([k \in Dims |->
                        UniformDraw(lower_bounds[k], upper_bounds[k])]),
                     popsize) :
         runs' = [k \in DOMAIN runs |-> initialize_population_of(runs[k], pop)]
    /\ UNCHANGED <<config, destate, locals, pc, pure, scene, strategy_selector,
                   allocation>>

\* The head of the loop in every optimizer
Runs_StartGeneration ==
    /\ AllAt("for")
    /\ \A k \in DOMAIN runs : runs[k].range_next < maxiter
    /\ runs' = [k \in DOMAIN runs |-> start_generation_of(runs[k])]
    /\ UNCHANGED <<config, destate, locals, pc, pure, scene, strategy_selector,
                   allocation>>

\* One pass of the loop over the individuals in every optimizer, on the
\* same draws; the strategy that select_strategy returns is one of them.
Runs_EvolveIndividual ==
    /\ AllAt("evolve")
    /\ \A k \in DOMAIN runs : runs[k].i <= Len(runs[k].population)
    /\ \E draw \in ParameterDraws, strategy \in Strategies,
          random_dim \in Dims :
         \E q \in ChoiceDraws(runs[1], runs[1].i, strategy)
                    \cup {<<>>} :
           /\ q = <<>> <=> ChoiceDraws(runs[1], runs[1].i, strategy) = {}
           /\ runs' = [k \in DOMAIN runs |->
                          evolve_of(runs[k], draw[1], draw[2], strategy, q,
                                    random_dim)]
    /\ UNCHANGED <<config, destate, locals, pc, pure, scene, strategy_selector,
                   allocation>>

\* The end of a generation in every optimizer
Runs_EndGeneration ==
    /\ AllAt("evolve")
    /\ \A k \in DOMAIN runs : runs[k].i > Len(runs[k].population)
    /\ runs' = [k \in DOMAIN runs |-> end_generation_of(runs[k])]
    /\ UNCHANGED <<config, destate, locals, pc, pure, scene, strategy_selector,
                   allocation>>

\* range(maxiter) is exhausted in every optimizer
Runs_LoopExhausted ==
    /\ AllAt("for")
    /\ \A k \in DOMAIN runs : runs[k].range_next >= maxiter
    /\ runs' = [k \in DOMAIN runs |-> [runs[k] EXCEPT !.pc = "return"]]
    /\ UNCHANGED <<config, destate, locals, pc, pure, scene, strategy_selector,
                   allocation>>

\* create_result in every optimizer
Runs_create_result ==
    /\ AllAt("return")
    /\ runs' = [k \in DOMAIN runs |-> create_result_of(runs[k])]
    /\ UNCHANGED <<config, destate, locals, pc, pure, scene, strategy_selector,
                   allocation>>

\* StrategySelector.update_strategy_performance(strategy, success)
update_strategy_performance ==
    /\ pc = "selector"
    /\ \E strategy \in DOMAIN UpdateBudget, success \in BOOLEAN :
         /\ strategy_selector.total_uses[strategy] <= UpdateBudget[strategy]
         /\ strategy_selector' =
               update_strategy_performance_of(strategy_selector, strategy,
                                              success)
    /\ outcome' = [exc |-> "none", call |-> "update_strategy_performance"]
    /\ UNCHANGED <<config, destate, locals, pc, dv, parser, scene, runs,
                   allocation>>

\* StrategySelector.select_strategy(): weights that sum to 0 cannot be
\* normalized, and np.random.choice raises ValueError for them.
select_strategy ==
    /\ pc = "selector"
    /\ IF Selectable(strategy_selector) = {}
       THEN outcome' = [exc |-> "ValueError", call |-> "select_strategy"]
       ELSE \E st \in Selectable(strategy_selector) :
              outcome' = [exc |-> "none", call |-> "select_strategy",
                          value |-> st]
    /\ UNCHANGED <<config, destate, locals, pc, dv, parser, scene, adaptive,
                   allocation>>

\* The lines 55-58 of GlobalOptimizer._parse_decision_variables for one
\* grenade: the selector dv[1] / SelectorSteps and missiles 1..dv[2].
call_target_missile ==
    /\ pc = "call"
    /\ parser = "target_missile"
    /\ outcome' = target_missile(dv[1], SelectorSteps, [k \in 1..dv[2] |-> k])
    /\ pc' = IF outcome'.exc = "none" THEN "returned" ELSE "raised"
    /\ UNCHANGED <<config, destate, locals, dv, parser, scene, adaptive,
                   allocation>>

\* temp_alloc = {m_id: int(np.round(threat_weights[m_id] * num_uavs))} and
\* current_total = sum(temp_alloc.values())
round_allocation ==
    /\ pc = "call"
    /\ parser \in Allocators
    /\ temp_alloc' = [m \in DOMAIN dv |->
                         RoundHalfEven(dv[m] * num_uavs, WeightSteps)]
    /\ current_total' = SeqSum(temp_alloc')
    /\ pc' = "adjust"
    /\ UNCHANGED <<config, destate, locals, pure, scene, adaptive,
                   assignments>>

\* One pass of `while current_total < num_uavs`.
add_to_highest_threat ==
    /\ pc = "adjust"
    /\ parser \in Allocators
    /\ current_total < num_uavs
    /\ temp_alloc' = [temp_alloc EXCEPT ![m_id_to_add(dv)] = @ + 1]
    /\ current_total' = current_total + 1
    /\ UNCHANGED <<config, destate, locals, pc, pure, scene, adaptive,
                   assignments>>

\* One pass of `while current_total > num_uavs`: in
\* assign_tasks_by_optimal_allocation the total is lowered with the count,
\* under the `if`; in assign_tasks_by_threat it is lowered in every pass.
subtract_from_lowest_threat ==
    /\ pc = "adjust"
    /\ parser \in Allocators
    /\ current_total > num_uavs
    /\ IF temp_alloc[m_id_to_sub(dv)] > 0
       THEN /\ temp_alloc' = [temp_alloc EXCEPT ![m_id_to_sub(dv)] = @ - 1]
            /\ current_total' = current_total - 1
       ELSE /\ temp_alloc' = temp_alloc
            /\ current_total' =
                  IF parser = "assign_tasks_by_threat"
                  THEN current_total - 1 ELSE current_total
    /\ UNCHANGED <<config, destate, locals, pc, pure, scene, adaptive,
                   assignments>>

\* assign_tasks_by_optimal_allocation after the loops: the integer program
\* and the assignments read from its solution, or {} when it has none.
solve_allocation ==
    /\ pc = "adjust"
    /\ parser = "assign_tasks_by_optimal_allocation"
    /\ current_total = num_uavs
    /\ IF FeasibleAllocations(temp_alloc) = {}
       THEN assignments' = <<>>
       ELSE \E x \in FeasibleAllocations(temp_alloc) :
              assignments' = [m \in DOMAIN missile_ids |->
                                 {u \in DOMAIN uav_ids : x[u] = m}]
    /\ outcome' = [exc |-> "none", call |-> parser]
    /\ pc' = "returned"
    /\ UNCHANGED <<config, destate, locals, dv, parser, scene, adaptive,
                   temp_alloc, current_total>>

\* assign_tasks_by_threat after the loops: the missiles by decreasing
\* weight, each taking its nearest free UAVs.
greedy_allocation ==
    /\ pc = "adjust"
    /\ parser = "assign_tasks_by_threat"
    /\ current_total = num_uavs
    /\ assignments' =
          GreedyAssign(SortedByKey(DOMAIN dv, [m \in DOMAIN dv |-> -dv[m]]),
                       temp_alloc, {}, [m \in DOMAIN missile_ids |-> {}])
    /\ outcome' = [exc |-> "none", call |-> parser]
    /\ pc' = "returned"
    /\ UNCHANGED <<config, destate, locals, dv, parser, scene, adaptive,
                   temp_alloc, current_total>>

Next ==
    \/ round_allocation
    \/ add_to_highest_threat
    \/ subtract_from_lowest_threat
    \/ solve_allocation
    \/ greedy_allocation
    \/ call_target_missile
    \/ call_check_full_obscuration
    \/ call_check_collective_obscuration
    \/ call_objective_function
    \/ set_flight_strategy
    \/ get_position
    \/ deploy_grenade
    \/ call_get_center
    \/ call_handle_boundary
    \/ parse_decision_variables_returns
    \/ parse_decision_variables_raises
    \/ initialize_population
    \/ StartGeneration
    \/ EvolveIndividual
    \/ MutateFails
    \/ EndGeneration
    \/ LoopExhausted
    \/ create_result
    \/ Runs_initialize_population
    \/ Runs_StartGeneration
    \/ Runs_EvolveIndividual
    \/ Runs_EndGeneration
    \/ Runs_LoopExhausted
    \/ Runs_create_result
    \/ update_strategy_performance
    \/ select_strategy

Spec == Init /\ [][Next]_vars

\* The steps of optimize().
OptimizeNext ==
    \/ initialize_population
    \/ StartGeneration
    \/ EvolveIndividual
    \/ MutateFails
    \/ EndGeneration
    \/ LoopExhausted
    \/ create_result

\* A call of optimize() on a constructed optimizer.  The interpreter keeps
\* executing: a call that can take a step takes one.
FairSpec == InitOptimize /\ [][OptimizeNext]_vars /\ WF_vars(OptimizeNext)

-----------------------------------------------------------------------------
\* Properties of optimize()

\* The population has been initialized and optimize() is still running.
Running == pc \in {"for", "evolve", "return"}

\* convergence_history never rises from one entry to the next.
HistoryNonIncreasing ==
    \A k \in 1..(Len(convergence_history) - 1) :
        convergence_history[k + 1] <= convergence_history[k]

\* C1: the tracked best fitness is non-increasing.  From the initial
\* population on no step of optimize() raises best_fitness, each entry that
\* is appended to convergence_history is the best_fitness of that moment (so
\* it is at most the best fitness of the initial population), and each
\* entry of convergence_history is at most the entry before it.
C1_BestFitnessNonIncreasing ==
    /\ [](HistoryNonIncreasing)
    /\ [][/\ Running => best_fitness' <= best_fitness
          /\ Len(convergence_history') > Len(convergence_history)
               => /\ convergence_history' =
                        Append(convergence_history, best_fitness')
                  /\ best_fitness' = best_fitness]_vars

\* Two generations were executed, with shrinking, and the second one ended
\* with a best fitness strictly below the first one's.
C1_Witness ==
    /\ Len(convergence_history) = 2
    /\ convergence_history[2] < convergence_history[1]
    /\ Len(population) < popsize

\* Every component of v lies within its declared bound.
InBounds(v) ==
    \A k \in Dims : lower_bounds[k] <= v[k] /\ v[k] <= upper_bounds[k]

WellFormedBounds == \A k \in Dims : lower_bounds[k] <= upper_bounds[k]

\* An individual is about to be evolved.
Evolving == pc = "evolve" /\ i <= Len(population)

\* Every mutant and every trial the next pass of the loop can produce,
\* after handle_boundary, lies within the bounds.
NextMutantsAndTrialsInBounds ==
    Evolving =>
        \A F \in FSet : \A m \in BoundedMutants(F) :
            /\ InBounds(m)
            /\ \A CR \in CRSet : \A t \in BoundedTrials(m, CR) : InBounds(t)

\* Every individual the optimizer holds lies within the bounds.
HeldIndividualsInBounds ==
    /\ population # NoArray
         => \A k \in DOMAIN population : InBounds(population[k])
    /\ trial # NoArray => InBounds(trial)
    /\ archive # NoValue => \A k \in DOMAIN archive : InBounds(archive[k])

\* C2: with boundary handling CLIP and lower <= upper in every dimension, no
\* component of a produced individual lies outside its bound: the members
\* of the initial and of every later population, every mutant and every
\* trial after handle_boundary, every archive entry, and what
\* handle_boundary returns for any vector.
C2_ClipKeepsBounds ==
    (boundary_handling = "clip" /\ WellFormedBounds) =>
        /\ HeldIndividualsInBounds
        /\ NextMutantsAndTrialsInBounds
        /\ (pc = "returned" /\ parser = "handle_boundary")
             => InBounds(outcome.value)

\* An individual some raw mutant of which leaves the box.
RawMutantOutOfBounds ==
    /\ Evolving
    /\ \E F \in FSet, strategy \in Strategies :
         /\ ~MutateRaises(i, strategy)
         /\ \E v \in mutate(i, strategy, F) : ~InBounds(v)

\* CLIP, in the second generation, with a displaced individual in the
\* archive, evolving an individual that has a mutant outside the box.
C2_Witness ==
    /\ boundary_handling = "clip"
    /\ generation = 1
    /\ archive # NoValue /\ Len(archive) > 0
    /\ RawMutantOutOfBounds

\* C3: with REFLECT, REINITIALIZE or MIDPOINT (and lower <= upper),
\* handle_boundary returns a vector within the bounds for any input vector,
\* however far out of range; the population stays within the bounds, and
\* so do the returned best vector x and every member of the returned final
\* population.
C3_OtherModesKeepBounds ==
    (boundary_handling \in {"reflect", "reinitialize", "midpoint"}
       /\ WellFormedBounds) =>
        /\ (pc = "returned" /\ parser = "handle_boundary")
             => InBounds(outcome.value)
        /\ population # NoArray
             => \A k \in DOMAIN population : InBounds(population[k])
        /\ pc = "done"
             => /\ InBounds(result.x)
                /\ \A k \in DOMAIN result.final_population :
                      InBounds(result.final_population[k])

\* REFLECT was handed a vector so far above the box that the fold across
\* the upper bound lands below the lower bound, and returned the lower
\* bound in that dimension.
C3_Witness ==
    /\ pc = "returned" /\ parser = "handle_boundary"
    /\ boundary_handling = "reflect"
    /\ \E k \in Dims :
         /\ lower_bounds[k] < upper_bounds[k]
         /\ upper_bounds[k] - (dv[k] - upper_bounds[k]) < lower_bounds[k]
         /\ outcome.value[k] = lower_bounds[k]

\* The call has returned or an exception has left it.
Terminated == pc \in {"done", "raised", "returned"}

\* The last generation that was executed ended with |best_fitness| < tol.
LastGenerationConverged ==
    /\ Len(convergence_history) > 0
    /\ Abs(convergence_history[Len(convergence_history)]) < tol

\* C4: optimize() terminates; it starts at most maxiter generations and
\* records at most one entry per started generation; and once a generation
\* has ended with |best_fitness| < tol it only builds and returns the result.
C4_Terminates ==
    /\ [](/\ range_next <= maxiter
          /\ Len(convergence_history) <= range_next
          /\ LastGenerationConverged => pc \in {"return", "done"})
    /\ <>Terminated

\* optimize() returned after a generation that was not the last of the
\* budget and had ended with |best_fitness| < tol.
C4_Witness ==
    /\ pc = "done"
    /\ LastGenerationConverged
    /\ Len(convergence_history) < maxiter

\* A generation has just been started: nothing of it has been evolved.
GenerationStarted == pc = "evolve" /\ i = 1

\* C5: a state with |best_fitness| < tol is terminal: no generation is
\* started from a state in which |best_fitness| < tol holds, the freshly
\* initialized population included.
C5_NoGenerationFromConverged ==
    GenerationStarted => Abs(best_fitness) >= tol

\* fitness[k] is the objective value of population[k], for every k.
FitnessCached ==
    /\ Len(population) = Len(fitness)
    /\ \A k \in DOMAIN population :
         LET ev == CallObjective(population[k])
         IN ev.exc = "none" /\ ev.value = fitness[k]

\* best_fitness is the cost at best_idx and the least cost.
BestTracked ==
    /\ best_idx \in DOMAIN fitness
    /\ best_fitness = fitness[best_idx]
    /\ \A k \in DOMAIN fitness : best_fitness <= fitness[k]

\* C6: once the population is evaluated, and after every update of an
\* individual and every shrink, population and fitness have the same
\* length, fitness[k] is the objective value of population[k], and
\* best_fitness = fitness[best_idx] = min(fitness); the returned x
\* evaluates to the returned fun, and success is true iff |fun| < tol.
C6_PopulationFitnessConsistent ==
    /\ fitness # NoArray => FitnessCached /\ BestTracked
    /\ pc = "done"
         => /\ CallObjective(result.x).value = result.fun
            /\ result.success <=> (Abs(result.fun) < tol)

\* optimize() returned a success after a shrink, with the best individual
\* found after the shrink (it is not at the head of the population).
C6_Witness ==
    /\ pc = "done"
    /\ Len(population) < popsize
    /\ archive # NoValue /\ Len(archive) > 0
    /\ best_idx # 1
    /\ result.success

\* C7: 'nit' is the number of generations that were executed: maxiter when
\* the budget was exhausted, k when the run stopped at the end of its k-th
\* generation.
C7_NitCountsGenerations ==
    pc = "done" => result.nit = Len(result.convergence_history)

\* The pass of the loop for individual i was just made.
SelectionStep == pc = "evolve" /\ pc' = "evolve" /\ i' = i + 1

\* C8: in the selection for individual i the target is replaced by the
\* trial iff the trial's cost is strictly below fitness[i].  If it is,
\* population[i] and fitness[i] become the trial and its cost, no other
\* individual changes, and one (F, CR) pair is recorded; if it is not,
\* population, fitness, archive, best_idx, best_fitness and the recorded
\* (F, CR) pairs are unchanged.
C8_SelectionFrame ==
    [][SelectionStep =>
         IF trial_fitness' < fitness[i]
         THEN /\ population' = [population EXCEPT ![i] = trial']
              /\ fitness' = [fitness EXCEPT ![i] = trial_fitness']
              /\ Len(generation_successful') = Len(generation_successful) + 1
         ELSE /\ population' = population
              /\ fitness' = fitness
              /\ archive' = archive
              /\ best_idx' = best_idx
              /\ best_fitness' = best_fitness
              /\ generation_successful' = generation_successful]_vars

\* The last trial cost exactly what its target costs, is another vector
\* than its target, and the target is still in place.
C8_Witness ==
    /\ pc = "evolve" /\ i > 1
    /\ trial # NoArray
    /\ trial_fitness = fitness[i - 1]
    /\ trial # population[i - 1]

\* C9: an error raised inside an objective evaluation never aborts
\* optimize(): no exception of the objective leaves optimize().
C9_ObjectiveErrorNeverAborts ==
    (pc = "raised" /\ parser = NoValue) => outcome.raised_in # "objective_func"

\* C10: a decoder returns a strategy only for a vector of the length that
\* the carrier and munition counts imply; a shorter or longer vector is
\* rejected.
C10_WrongLengthRejected ==
    (pc = "returned" /\ parser \in Decoders)
        => Len(dv) = SchemaLength(parser, uav_assignments)

\* C11: if the bounds are contradictory (lower > upper in some dimension),
\* optimize() reports a configuration error before the initial population
\* is drawn and before any generation executes: a run with such bounds
\* never holds a population, never starts a generation and never returns a
\* result.
C11_ContradictoryBoundsRejected ==
    (parser = NoValue /\ ~WellFormedBounds) =>
        /\ population = NoArray
        /\ pc \in {"optimize", "raised"}
        /\ result = NoRecord

-----------------------------------------------------------------------------
\* Properties of the UAV, Grenade and SmokeCloud objects

\* The last call on the objects was callee.
LastCall(callee) ==
    pc = "scene" /\ "call" \in DOMAIN outcome /\ outcome.call = callee

\* c is the center at t of the cloud of grenade g: the detonation position
\* lowered in z inside the half-open window, None outside it.
CenterInWindowOnly(g, t, c) ==
    LET detonation == g.deploy_time + g.fuse_time
    IN IF detonation <= t /\ t < detonation + CLOUD_DURATION * StepsPerSecond
       THEN c = <<g.detonate_pos[1], g.detonate_pos[2],
                  g.detonate_pos[3] - CLOUD_SINK_SPEED * (t - detonation)>>
       ELSE c = NoArray

\* The cloud of the k-th deployed grenade has a center at t.
ActiveAt(k, t) == get_center(generate_smoke_cloud(grenades[k]), t) # NoArray

\* C12: the cloud of a grenade with deploy time d and fuse time f has a
\* center exactly for d+f <= t < d+f+CLOUD_DURATION and None for every
\* other t; while active the center is the detonation position lowered by
\* CLOUD_SINK_SPEED*(t-(d+f)) in z only; the instants at which it is active
\* are consecutive, so it is never active again after it has dissipated;
\* and no operation changes the window of a cloud that exists.
C12_CloudWindow ==
    /\ [](/\ LastCall("get_center") =>
               CenterInWindowOnly(grenades[outcome.cloud], outcome.t,
                                  outcome.value)
          /\ \A k \in DOMAIN grenades : \A t1, t2, t3 \in QueryTimes :
                (t1 < t2 /\ t2 < t3 /\ ActiveAt(k, t1) /\ ~ActiveAt(k, t2))
                    => ~ActiveAt(k, t3))
    /\ [][\A k \in DOMAIN grenades :
             /\ k \in DOMAIN grenades'
             /\ generate_smoke_cloud(grenades'[k])
                  = generate_smoke_cloud(grenades[k])]_vars

\* get_center has answered for the last instant of a window, and for the
\* first instant after it.
C12_Witness ==
    /\ LastCall("get_center")
    /\ outcome.value # NoArray
    /\ outcome.t = grenades[outcome.cloud].detonate_time
                      + CLOUD_DURATION * StepsPerSecond - 1
    /\ ~ActiveAt(outcome.cloud, outcome.t + 1)

\* C13: on a UAV whose flight strategy has never been set, get_position
\* and deploy_grenade fail with an error and no grenade is created; once
\* set_flight_strategy has been called both succeed, and they use the speed
\* and the angle that were set last.
C13_StrategyBeforeUse ==
    /\ [](/\ (LastCall("get_position") \/ LastCall("deploy_grenade")) =>
               (outcome.exc = "ValueError" <=> "speed" \notin DOMAIN uav)
          /\ (LastCall("get_position") /\ outcome.exc = "none") =>
               outcome.value =
                 <<uav.start_pos[1] + uav.speed * Cos(uav.angle) * outcome.t,
                   uav.start_pos[2] + uav.speed * Sin(uav.angle) * outcome.t,
                   uav.start_pos[3]>>
          /\ (LastCall("deploy_grenade") /\ outcome.exc = "none") =>
               LET g == outcome.value
               IN /\ g.deploy_vel = <<uav.speed * Cos(uav.angle),
                                      uav.speed * Sin(uav.angle), 0>>
                  /\ g.deploy_pos = VAdd(uav.start_pos,
                                         VScale(g.deploy_time, g.deploy_vel))
                  /\ grenades[Len(grenades)] = g)
    /\ [][(pc = "scene" /\ outcome'.exc = "ValueError")
            => grenades' = grenades]_vars

\* A position is returned for a UAV whose speed has been set a second time
\* since it deployed a grenade.
C13_Witness ==
    /\ LastCall("get_position")
    /\ outcome.exc = "none"
    /\ outcome.t > 0
    /\ Len(grenades) > 0
    /\ grenades[1].deploy_vel # uav.velocity_vec

-----------------------------------------------------------------------------
\* Properties of the collective test and of the objectives

\* The key points that the clouds selected by v cover between them.
CoveredBy(v) ==
    {p \in KeyPoints : check_collective_obscuration(SelectedClouds(v), {p})}

\* The selections that select at least the clouds that v selects.
Supersets(v) == {w \in ActiveSelections : \A k \in DOMAIN v : v[k] <= w[k]}

\* C14: collective coverage is monotone in the cloud set.  Every key point
\* covered by a set of active clouds is covered by every superset of it,
\* and a target the collective test finds hidden by a set of clouds it
\* finds hidden by every superset.
C14_CoverageMonotone ==
    (pc = "returned" /\ parser = "check_collective_obscuration") =>
        \A w \in Supersets(dv) :
            /\ CoveredBy(dv) \subseteq CoveredBy(w)
            /\ outcome.value =>
                  check_collective_obscuration(SelectedClouds(w), KeyPoints)

\* The test has found the target hidden by two clouds neither of which
\* covers every key point, with a third cloud left to add.
C14_Witness ==
    /\ pc = "returned" /\ parser = "check_collective_obscuration"
    /\ outcome.value
    /\ dv = <<1, 1, 0>>
    /\ cone_cover[1] # KeyPoints /\ cone_cover[2] # KeyPoints
    /\ cone_cover[3] = {}

\* The carriers of the strategy decoded from v exist: the try block of the
\* objective builds their clouds.
StrategyBuilt(v) ==
    BuildClouds(Problem5_parse_decision_variables(v, uav_assignments).strategy,
                <<>>).exc = "none"

\* The clouds that the decision vector v deploys.
CloudsFor(v) ==
    BuildClouds(Problem5_parse_decision_variables(v, uav_assignments).strategy,
                <<>>).clouds

\* The sampled instants of the clouds.
SampledInstants(clouds) ==
    SeqMin([k \in DOMAIN clouds |-> clouds[k].start_time])
      ..(SeqMax([k \in DOMAIN clouds |-> clouds[k].end_time]) - 1)

\* The clouds that are active at t.
ActiveClouds(clouds, t) ==
    {clouds[k] : k \in {j \in DOMAIN clouds : IsActive(clouds[j], t)}}

\* The sampled instants at which every key point is in the cone of some
\* active cloud.
JointlyCovered(clouds) ==
    {t \in SampledInstants(clouds) :
        \A p \in KeyPoints :
            \E c \in ActiveClouds(clouds, t) : p \in c.covers}

\* C15: the collective test returns hidden iff every key point is covered
\* by at least one of the active clouds (not necessarily the same cloud for
\* every point): with no active cloud it returns not hidden; and the
\* objective counts no sampled instant at which no cloud is active: what
\* it counts are the instants with an active cloud at which every key point
\* is covered.
C15_CollectiveTest ==
    /\ (pc = "returned" /\ parser = "check_collective_obscuration") =>
          /\ outcome.value <=>
                \A p \in KeyPoints :
                    \E k \in DOMAIN dv : dv[k] = 1 /\ p \in cone_cover[k]
          /\ (\A k \in DOMAIN dv : dv[k] = 0) => ~outcome.value
    /\ (pc = "returned" /\ parser = "objective_function"
          /\ StrategyBuilt(dv)) =>
          /\ \A t \in obscured_time_points(CloudsFor(dv)) :
                ActiveClouds(CloudsFor(dv), t) # {}
          /\ -outcome.value = Cardinality(JointlyCovered(CloudsFor(dv)))

\* The objective has returned for two clouds that cover every key point,
\* the second of which becomes active after the first has dissipated.
C15_Witness ==
    /\ pc = "returned" /\ parser = "objective_function"
    /\ StrategyBuilt(dv)
    /\ cone_cover[1] = KeyPoints /\ cone_cover[2] = KeyPoints
    /\ \E t \in SampledInstants(CloudsFor(dv)) :
          ActiveClouds(CloudsFor(dv), t) = {}
    /\ outcome.value < 0

\* C16: the objective credits joint coverage.  Every sampled instant at
\* which the active clouds together cover every key point is counted, also
\* when no single active cloud passes the single-cloud test.
C16_JointCoverageCredited ==
    (pc = "returned"
       /\ parser \in {"objective_function", "objective_function_solve1_2"}
       /\ StrategyBuilt(dv))
        => -outcome.value >= Cardinality(JointlyCovered(CloudsFor(dv)))

\* The rim points of a circle of the target that are nearest to and
\* farthest from the axis of a cone in the vertical plane y = 200: the two
\* ends of the diameter in that plane or, with the center of the circle on
\* the axis, the one point the test takes.
ExtremalPoints(observer, cloud_center, circle_center) ==
    IF NormSq(Cross(VSub(circle_center, observer),
                    VSub(cloud_center, observer))) = 0
    THEN {<<circle_center[1], circle_center[2] - TargetCylinder.radius,
            circle_center[3]>>,
          <<circle_center[1], circle_center[2] + TargetCylinder.radius,
            circle_center[3]>>}
    ELSE {<<circle_center[1] - TargetCylinder.radius, circle_center[2],
            circle_center[3]>>,
          <<circle_center[1] + TargetCylinder.radius, circle_center[2],
            circle_center[3]>>}

\* The rim circle passes: each checked extremal point makes an angle with
\* the axis that is at most the half-angle.
RimPasses(observer, cloud_center, circle_center, circle_normal) ==
    \A p \in ExtremalPoints(observer, cloud_center, circle_center)
             \cap points_to_check(observer, VSub(cloud_center, observer),
                                  circle_center, TargetCylinder.radius,
                                  circle_normal) :
        p # observer
          => WithinHalfAngle(observer, VSub(cloud_center, observer), p)

\* C17: check_full_obscuration returns true when the observer is within
\* CLOUD_RADIUS of the cloud center, whatever the target; otherwise it
\* returns true iff the bottom rim circle and the top rim circle both pass
\* the cone test, a circle passing iff every checked extremal point makes
\* an angle with the axis of at most the half-angle (equality passes).
C17_SingleCloudTest ==
    (pc = "returned" /\ parser = "check_full_obscuration") =>
        LET observer == SubSeq(dv, 1, 3)
            cloud_center == SubSeq(dv, 4, 6)
        IN /\ points_to_check(observer, VSub(cloud_center, observer),
                              TargetCylinder.top_center,
                              TargetCylinder.radius, <<0, 0, 1>>)
                \subseteq ExtremalPoints(observer, cloud_center,
                                         TargetCylinder.top_center)
           /\ points_to_check(observer, VSub(cloud_center, observer),
                              TargetCylinder.bottom_center,
                              TargetCylinder.radius, <<0, 0, -1>>)
                \subseteq ExtremalPoints(observer, cloud_center,
                                         TargetCylinder.bottom_center)
           /\ IF NormSq(VSub(cloud_center, observer))
                   <= CLOUD_RADIUS * CLOUD_RADIUS
              THEN outcome.value
              ELSE outcome.value <=>
                     /\ RimPasses(observer, cloud_center,
                                  TargetCylinder.bottom_center, <<0, 0, -1>>)
                     /\ RimPasses(observer, cloud_center,
                                  TargetCylinder.top_center, <<0, 0, 1>>)

\* The test has passed for an observer outside the cloud with a top rim
\* point exactly on the surface of the cone.
C17_Witness ==
    /\ pc = "returned" /\ parser = "check_full_obscuration"
    /\ outcome.value
    /\ NormSq(VSub(SubSeq(dv, 4, 6), SubSeq(dv, 1, 3)))
         > CLOUD_RADIUS * CLOUD_RADIUS
    /\ \E p \in ExtremalPoints(SubSeq(dv, 1, 3), SubSeq(dv, 4, 6),
                                TargetCylinder.top_center) :
          ~StrictlyWithinHalfAngle(SubSeq(dv, 1, 3),
                                   VSub(SubSeq(dv, 4, 6), SubSeq(dv, 1, 3)),
                                   p)

-----------------------------------------------------------------------------
\* Properties of mutation, crossover and the archive

\* C18: in every generation that optimize() reaches, also after the
\* population has been shrunk towards its floor, mutate can draw the
\* distinct candidates that the selected strategy needs, whichever of the
\* four strategies it is: starting from a population that is large enough
\* for every strategy, mutation never fails for lack of candidates.
C18_MutationNeverLacksCandidates ==
    (popsize > Needed("rand/2")) =>
        /\ Evolving => \A strategy \in Strategies : ~MutateRaises(i, strategy)
        /\ ~(pc = "raised" /\ parser = NoValue /\ outcome.raised_in = "mutate")

\* C19: crossover guarantees that the trial differs from the target.  For
\* the target that is evolved next and every mutant and CR it can meet,
\* each component of the crossover output is the component of the target
\* or of the mutant, at least one index is taken from the mutant, and the
\* trial (the crossover output after handle_boundary) is not the target.
C19_TrialDiffersFromTarget ==
    Evolving =>
        \A draw \in ParameterDraws : \A m \in BoundedMutants(draw[1]) :
            \A c \in crossover(population[i], m, draw[2]) :
                /\ \A k \in Dims : c[k] = population[i][k] \/ c[k] = m[k]
                /\ \E k \in Dims : c[k] = m[k]
                /\ \A t \in handle_boundary(c) : t # population[i]

\* The archive a with x pushed in: the oldest entry leaves a full archive.
BoundedFifoPush(a, x) ==
    IF Len(a) < archive_size THEN Append(a, x) ELSE Append(Tail(a), x)

\* C20: the archive is a bounded FIFO.  It never holds more than
\* archive_size entries; it changes only in a successful replacement, and
\* then by the individual that was in population[i] right before the
\* replacement being appended, the oldest entry leaving first when it is
\* full; no later change of the population changes an entry.
C20_ArchiveBoundedFifo ==
    /\ [](archive # NoValue => Len(archive) <= archive_size)
    /\ [][/\ archive' # archive =>
               /\ SelectionStep
               /\ trial_fitness' < fitness[i]
          /\ (SelectionStep /\ trial_fitness' < fitness[i]
                /\ archive # NoValue) =>
               /\ archive' = BoundedFifoPush(archive, population[i])
               /\ population'[i] = trial'
               /\ population'[i] # population[i]]_vars

\* Three individuals of one generation have been replaced and the archive
\* of two entries is full: the first displaced individual has left it.
C20_Witness ==
    /\ archive # NoValue
    /\ archive_size = 2
    /\ Len(archive) = archive_size
    /\ Len(generation_successful) >= 3
    /\ archive[1] # archive[2]

-----------------------------------------------------------------------------
\* Properties of the archive and of the adaptive parameters in optimize()

\* What an optimizer shows of its search: everything but the archive and
\* its settings.
Observable(o) ==
    [population |-> o.population, fitness |-> o.fitness,
     best_idx |-> o.best_idx, best_fitness |-> o.best_fitness,
     generation |-> o.generation,
     convergence_history |-> o.convergence_history,
     adaptive_params |-> o.adaptive_params,
     generation_successful |-> o.generation_successful,
     range_next |-> o.range_next, i |-> o.i,
     result |-> o.result, raised |-> o.raised, pc |-> o.pc]

\* C21: the archive never influences the search.  Runs of optimize() on
\* the same random draws and the same objective, one with an archive, one
\* without and one with an archive of another size, are at every step in
\* the same state of population, fitness, best_idx, best_fitness and
\* adaptive parameters, and they return the same result.
C21_ArchiveNeverInfluencesSearch ==
    pc = "runs" =>
        \A k \in DOMAIN runs : Observable(runs[k]) = Observable(runs[1])

\* The runs have returned after a second generation that was evolved with
\* a displaced individual in the archive of the first run, none in that of
\* the second and more of them in that of the third.
C21_Witness ==
    /\ pc = "runs"
    /\ \A k \in DOMAIN runs : runs[k].pc = "done"
    /\ Len(runs[1].convergence_history) = 2
    /\ Len(runs[1].generation_successful) > 0
    /\ Len(runs[1].archive) = 1
    /\ runs[2].archive = <<>>
    /\ Len(runs[3].archive) = 2
    /\ runs[1].result.fun < runs[1].convergence_history[1]

\* Two quotients are the same number.
SameQuotient(a, b) == a[1] * b[2] = b[1] * a[2]

\* The arithmetic mean of the CR and the Lehmer mean of the F of pairs.
MeanCR(pairs) ==
    <<SeqSum([k \in DOMAIN pairs |-> pairs[k][2]]), 2 * Len(pairs)>>
LehmerMeanF(pairs) ==
    <<SeqSum([k \in DOMAIN pairs |-> pairs[k][1] * pairs[k][1]]),
      SeqSum([k \in DOMAIN pairs |-> pairs[k][1]])>>

\* A generation of the optimizer o has ended and no other has started: the
\* successful pairs of that generation are still in generation_successful.
GenerationEnded(o) ==
    /\ o.pc \in {"for", "return", "done"}
    /\ Len(o.convergence_history) > 0

\* C22: at the end of every generation in which at least one trial
\* succeeded, mean_CR is the arithmetic mean of the CR and mean_F the Lehmer
\* mean of the F of all the pairs that succeeded in that generation, however
\* many succeeded; and the success memory is empty at the end and at the
\* start of every generation.
C22_CentersFromThisGeneration ==
    pc = "runs" =>
        LET o == runs[1]
        IN /\ o.adaptive_params.successful = <<>>
           /\ (GenerationEnded(o) /\ o.generation_successful # <<>>) =>
                 /\ SameQuotient(o.adaptive_params.mean_CR,
                                 MeanCR(o.generation_successful))
                 /\ SameQuotient(o.adaptive_params.mean_F,
                                 LehmerMeanF(o.generation_successful))

\* The centers are those of the pairs of the generation whenever no more
\* pairs succeeded in it than the memory holds.
CentersFromThisGenerationWithinMemory ==
    pc = "runs" =>
        LET o == runs[1]
        IN /\ o.adaptive_params.successful = <<>>
           /\ (GenerationEnded(o) /\ o.generation_successful # <<>>
                 /\ Len(o.generation_successful) <= memory_size) =>
                 /\ SameQuotient(o.adaptive_params.mean_CR,
                                 MeanCR(o.generation_successful))
                 /\ SameQuotient(o.adaptive_params.mean_F,
                                 LehmerMeanF(o.generation_successful))

\* mean_F and mean_CR of an optimizer
Centers(o) == <<o.adaptive_params.mean_F, o.adaptive_params.mean_CR>>

\* The step ends a generation of the first of the optimizers.
EndsGeneration ==
    /\ pc = "runs"
    /\ runs[1].pc = "evolve"
    /\ runs'[1].pc \in {"for", "return"}

\* C23: mean_F and mean_CR are 0.5 when optimize() is entered; the end of a
\* generation in which no trial succeeded leaves them unchanged (they are
\* not reset to 0.5), and so does every step that is not the end of a
\* generation: they change only at the end of a generation that had a
\* success, so they are 0.5 until the first such generation and afterwards
\* those that the most recent such generation computed.
C23_CentersKeptWithoutSuccess ==
    /\ []((pc = "runs" /\ runs[1].pc = "optimize")
             => Centers(runs[1]) = <<(<<1, 2>>), (<<1, 2>>)>>)
    /\ [][pc = "runs" =>
            /\ (EndsGeneration /\ runs[1].generation_successful = <<>>)
                  => Centers(runs'[1]) = Centers(runs[1])
            /\ ~EndsGeneration => Centers(runs'[1]) = Centers(runs[1])]_vars

\* The second generation has ended without a success, after a first
\* generation whose successes moved the centers away from 0.5.
C23_Witness ==
    /\ pc = "runs"
    /\ runs[1].pc \in {"for", "return"}
    /\ Len(runs[1].convergence_history) = 2
    /\ runs[1].generation_successful = <<>>
    /\ runs[1].adaptive_params.mean_F # <<1, 2>>

-----------------------------------------------------------------------------
\* Properties of the StrategySelector

\* The last call on the StrategySelector was select_strategy.
LastCall_select_strategy ==
    pc = "selector" /\ "call" \in DOMAIN outcome
                    /\ outcome.call = "select_strategy"

\* x <= 1
AtMostOne(x) ==
    x.int = 0 \/ (x.int = 1 /\ \A k \in DOMAIN x.digits : x.digits[k] = 0)

\* The last n elements of the sequence f (all of it when it is shorter).
LastOf(f, n) ==
    IF Len(f) <= n THEN f ELSE SubSeq(f, Len(f) - n + 1, Len(f))

\* The step is update_strategy_performance(st, success) as the claim has
\* it: 20 * rate' = 19 * rate + outcome, the window is the last 10 of the
\* old window with the outcome appended, nothing of another strategy moves.
UpdatesAsClaimed(sel, sel_, st, success) ==
    LET o == IF success THEN 1 ELSE 0
    IN /\ ScaleAdd(sel_.success_rates[st], Base, 0)
            = [int |-> 19 * sel.success_rates[st].int
                          + ScaleDigits(sel.success_rates[st].digits, 19).carry
                          + o,
               digits |-> Append(
                   ScaleDigits(sel.success_rates[st].digits, 19).digits, 0)]
       /\ sel_.recent_successes[st]
            = LastOf(Append(sel.recent_successes[st], o), 10)
       /\ \A other \in Strategies \ {st} :
             /\ sel_.success_rates[other] = sel.success_rates[other]
             /\ sel_.recent_successes[other] = sel.recent_successes[other]

\* C24: strategy selection is always well defined.  After any sequence of
\* update_strategy_performance calls the long-run rate of every strategy
\* lies in (0, 1], each update replacing the rate by 0.95 * rate + 0.05 *
\* outcome; each recent window holds at most the last 10 outcomes; every
\* weight 0.7 * rate + 0.3 * recent is strictly positive, so select_strategy
\* never fails and each of rand/1, best/1, current-to-best/1 and rand/2 can
\* be selected; and no other strategy is ever selected.
C24_SelectionWellDefined ==
    /\ [](pc = "selector" =>
            /\ DOMAIN strategy_selector.success_rates = Strategies
            /\ \A st \in Strategies :
                  /\ IsPositive(strategy_selector.success_rates[st])
                  /\ AtMostOne(strategy_selector.success_rates[st])
                  /\ Len(strategy_selector.recent_successes[st]) <= 10
                  /\ IsPositive(weight(strategy_selector, st))
            /\ Selectable(strategy_selector) = Strategies
            /\ LastCall_select_strategy =>
                  outcome.exc = "none" /\ outcome.value \in Strategies)
    /\ [][(pc = "selector" /\ strategy_selector' # strategy_selector) =>
            \E st \in Strategies, success \in BOOLEAN :
                UpdatesAsClaimed(strategy_selector, strategy_selector', st,
                                 success)]_vars

\* rand/1 has failed eleven times in a row, its window holds ten failures,
\* and it has been selected all the same.
C24_Witness ==
    /\ LastCall_select_strategy
    /\ outcome.value = "rand/1"
    /\ strategy_selector.total_uses["rand/1"] = 12
    /\ strategy_selector.recent_successes["rand/1"]
         = <<0, 0, 0, 0, 0, 0, 0, 0, 0, 0>>
    /\ strategy_selector.success_rates["rand/1"].int = 0

-----------------------------------------------------------------------------
\* Properties of update_population_size

\* The step of optimize() removes individuals from the population.
Shrinks ==
    /\ parser = NoValue /\ population # NoArray
    /\ Len(population') < Len(population)

\* kept maps the places of the new population to the places their
\* individuals had, and no individual that is left out costs less than one
\* that is kept.
KeepsLowestCost(kept) ==
    /\ \A a, b \in DOMAIN kept : a # b => kept[a] # kept[b]
    /\ \A a \in DOMAIN kept :
          /\ population'[a] = population[kept[a]]
          /\ fitness'[a] = fitness[kept[a]]
    /\ \A j \in DOMAIN population :
          (\A a \in DOMAIN kept : kept[a] # j)
              => \A a \in DOMAIN kept : fitness[j] >= fitness[kept[a]]

\* C25: during a run of optimize() the population size never increases and
\* never drops below min(initial size, max(4, dim // 2)); a shrink keeps a
\* set of lowest-cost individuals of the population it shrinks (no removed
\* individual costs strictly less than a kept one), leaves best_fitness
\* unchanged, and leaves best_idx at a survivor whose cost is best_fitness.
C25_ShrinkKeepsBest ==
    /\ []((parser = NoValue /\ population # NoArray) =>
            /\ Len(population) <= popsize
            /\ Len(population) >= Min2(popsize, Max2(4, dim \div 2)))
    /\ [][/\ (parser = NoValue /\ population # NoArray)
               => Len(population') <= Len(population)
          /\ Shrinks =>
               /\ \E kept \in [DOMAIN population' -> DOMAIN population] :
                     KeepsLowestCost(kept)
               /\ best_fitness' = best_fitness
               /\ best_idx' \in DOMAIN population'
               /\ fitness'[best_idx'] = best_fitness']_vars

\* A population of five has just been shrunk to four individuals that do
\* not all cost the same, in a generation after the first.
C25_Witness ==
    /\ parser = NoValue
    /\ pc = "evolve" /\ i = 1
    /\ generation > 0
    /\ popsize = 5 /\ Len(population) = 4
    /\ \E k \in DOMAIN fitness : fitness[k] > best_fitness

-----------------------------------------------------------------------------
\* Properties of the decoders

\* The deploy times of every carrier of a decoded strategy increase by at
\* least GRENADE_INTERVAL from one grenade to the next.
DeployTimesOrdered(strategy) ==
    \A u \in DOMAIN strategy :
        \A k \in 1..(Len(strategy[u].grenades) - 1) :
            LET earlier == strategy[u].grenades[k].t_deploy
                later == strategy[u].grenades[k + 1].t_deploy
            IN /\ earlier < later
               /\ later - earlier >= GRENADE_INTERVAL * StepsPerSecond

\* C26: for a decision vector inside the declared bounds (increments bounded
\* below by GRENADE_INTERVAL) the decoded deploy times of each carrier are
\* strictly increasing and consecutive ones differ by at least
\* GRENADE_INTERVAL.
C26_IncrementsKeepOrder ==
    (/\ pc = "returned" /\ parser \in IncrementDecoders
     /\ WithinBounds(dv, DeclaredBounds(parser, uav_assignments)))
        => DeployTimesOrdered(outcome.strategy)

\* A vector inside the declared bounds with the latest first deploy time and
\* the smallest increments has been decoded for a carrier of three grenades.
C26_Witness ==
    /\ pc = "returned" /\ parser = "Problem3Optimizer"
    /\ WithinBounds(dv, DeclaredBounds(parser, uav_assignments))
    /\ dv[3] = 25 * StepsPerSecond
    /\ dv[5] = GRENADE_INTERVAL * StepsPerSecond
    /\ dv[7] = GRENADE_INTERVAL * StepsPerSecond
    /\ Len(outcome.strategy[1].grenades) = 3

\* max(0, min(floor(s * n), n - 1)) for s = dv[1] / SelectorSteps, n = dv[2]
ClampedFloorIndex ==
    Max2(0, Min2((dv[1] * dv[2]) \div SelectorSteps, dv[2] - 1))

TargetIndexWithinUnitInterval ==
    (/\ pc \in {"returned", "raised"} /\ parser = "target_missile"
     /\ 0 <= dv[1] /\ dv[1] <= SelectorSteps) =>
          /\ outcome.exc = "none"
          /\ outcome.target_missile_index = ClampedFloorIndex
          /\ outcome.target_missile_id = ClampedFloorIndex + 1
          /\ dv[1] = SelectorSteps => outcome.target_missile_index = dv[2] - 1

\* The strategy has one entry for every carrier, in sorted order of the
\* carriers, with counts[u] grenade records for carrier u, and used scalars
\* have been consumed: two for every carrier and two for every grenade.
DecodedAsAssigned(strategy, used, counts) ==
    LET ids == sorted_uav_ids(counts)
    IN /\ Len(strategy) = Len(ids)
       /\ \A k \in DOMAIN ids :
             /\ strategy[k].uav = ids[k]
             /\ Len(strategy[k].grenades) = counts[ids[k]]
       /\ used = SumOver([u \in DOMAIN counts |-> 2 + 2 * counts[u]],
                         DOMAIN counts)

RecordsAsAssignedPositiveCounts ==
    (/\ pc = "returned" /\ parser = "Problem5SubOptimizer"
     /\ \A u \in DOMAIN uav_assignments : uav_assignments[u] >= 1)
        => DecodedAsAssigned(outcome.strategy, outcome.used, uav_assignments)

-----------------------------------------------------------------------------
\* Properties of the value of the objective

\* The sampled instants at which the test of the objective named by callee
\* finds the target hidden: by the active clouds together, or by one cloud.
HiddenInstants(callee, clouds) ==
    {t \in SampledInstants(clouds) :
        IF callee = "objective_function"
        THEN /\ ActiveClouds(clouds, t) # {}
             /\ check_collective_obscuration(ActiveClouds(clouds, t), KeyPoints)
        ELSE \E k \in DOMAIN clouds : check_obscuration_at_time(clouds[k], t)}

InvalidStrategyScored ==
    /\ pc = "returned" /\ parser = "objective_function"
    /\ ~StrategyBuilt(dv)
    /\ outcome.value = 0

-----------------------------------------------------------------------------
\* Properties of the task allocators

\* An allocator is in the loops that adjust the counts.
Adjusting == pc = "adjust" /\ parser \in Allocators

\* The loops that adjust the counts are over.
Adjusted ==
    /\ parser \in Allocators
    /\ \/ pc = "adjust" /\ current_total = num_uavs
       \/ pc = "returned"

\* C30: for every threat-weight map the loop that adjusts the per-missile
\* UAV counts terminates (a pass that finds the total off changes the
\* total) and yields non-negative counts whose sum is the number of UAVs; in
\* the final assignment every UAV is assigned to at most one missile and no
\* missile receives more UAVs than its count.
C30_AllocationWellFormed ==
    /\ (Adjusting /\ current_total > num_uavs) =>
          ENABLED (subtract_from_lowest_threat
                     /\ current_total' < current_total)
    /\ (Adjusting /\ current_total < num_uavs) =>
          ENABLED (add_to_highest_threat /\ current_total' > current_total)
    /\ Adjusted =>
          /\ \A m \in DOMAIN temp_alloc : temp_alloc[m] >= 0
          /\ SeqSum(temp_alloc) = num_uavs
    /\ (parser \in Allocators /\ pc = "returned") =>
          /\ \A u \in DOMAIN uav_ids :
                Cardinality({m \in DOMAIN assignments :
                                u \in assignments[m]}) <= 1
          /\ \A m \in DOMAIN assignments :
                Cardinality(assignments[m]) <= temp_alloc[m]

\* The rounded counts exceed the number of UAVs by more than the missile of
\* the lowest weight has to give up.
ExcessAtLowestThreat ==
    LET rounded == [m \in DOMAIN dv |->
                       RoundHalfEven(dv[m] * num_uavs, WeightSteps)]
    IN SeqSum(rounded) - num_uavs > rounded[m_id_to_sub(dv)]

\* The same for the threat-weight maps whose excess of rounded counts the
\* missile of the lowest weight can give up.
AllocationWellFormedWithoutExcess ==
    (parser \in Allocators /\ ~ExcessAtLowestThreat)
        => C30_AllocationWellFormed
====
